---- MODULE Spec2Model ----
(***************************************************************************)
(* Model of the complaint pipeline of the MLA voice agent:                 *)
(*   - the shared store (tenants, complaints) behind the Supabase REST API *)
(*   - the save paths that allocate a reference number and insert a record *)
(*       complaint_tools.save_complaint_to_db    (variant "ct")            *)
(*       backend api create_complaint            (variant "api")           *)
(*       tools.save_complaint via agent.py       (variant "tools")         *)
(*       agent_with_db.save_complaint_to_db      (variant "wdb")           *)
(*   - the step-by-step orchestrator ComplaintAgent.on_enter (agent_v3)    *)
(* Every await of the source is one interleaving point of the model.       *)
(***************************************************************************)
EXTENDS Integers, Sequences, FiniteSets, TLC

\* ------------------------------------------------------------------ bounds
MaxNow == 1
TicksPerYear == 1
TicksPerDay == 2
BaseYear == 2025

\* the concurrent callers of the save paths (one per call in flight)
Procs == {"p1", "p2"}

\* ------------------------------------------------------------------ tenants
TenantIds == {"t1", "t2"}
NoTenant == "none"

\* constituency column of the tenants table, as a sequence of characters
Constituency(t) ==
    IF t = "t1" THEN <<"r", "a", "s", "i">> ELSE <<"C", "h", "e", "n">>

Upper(ch) ==
    CASE ch = "r" -> "R" [] ch = "a" -> "A" [] ch = "s" -> "S" [] ch = "i" -> "I"
      [] ch = "h" -> "H" [] ch = "e" -> "E" [] ch = "n" -> "N" [] ch = "k" -> "K"
      [] ch = "g" -> "G" [] OTHER -> ch

\* constituency[:3].upper()
Prefix3(s) ==
    LET n == IF Len(s) < 3 THEN Len(s) ELSE 3
    IN  [i \in 1..n |-> Upper(s[i])]

\* ------------------------------------------------------------------ time
\* datetime.now().year
YearOf(t) == BaseYear + (t \div TicksPerYear)

\* ------------------------------------------------------------------ reference numbers
NoRef == [fmt |-> "none", prefix |-> <<>>, year |-> 0, seq |-> 0]

\* f"{constituency}-{year}-{count:04d}"
FormatNumber(prefix, year, count) ==
    [fmt |-> "db", prefix |-> prefix, year |-> year, seq |-> count]

\* str(d) for one decimal digit
DigitChar(d) ==
    CASE d = 0 -> "0" [] d = 1 -> "1" [] d = 2 -> "2" [] d = 3 -> "3" [] d = 4 -> "4"
      [] d = 5 -> "5" [] d = 6 -> "6" [] d = 7 -> "7" [] d = 8 -> "8" [] OTHER -> "9"

\* the decimal digits of a natural number, as format() writes them
RECURSIVE Decimal(_)
Decimal(n) ==
    IF n < 10 THEN <<DigitChar(n)>> ELSE Decimal(n \div 10) \o <<DigitChar(n % 10)>>

\* the width of the format specification 04d
SeqWidth == 4

\* format(n, "04d"): zeros on the left up to the width, never a digit cut off
ZeroPad(n) ==
    LET d == Decimal(n)
    IN  IF Len(d) >= SeqWidth THEN d ELSE [i \in 1..(SeqWidth - Len(d)) |-> "0"] \o d

\* the characters of f"{constituency}-{year}-{count:04d}"
RenderNumber(ref) ==
    ref.prefix \o <<"-">> \o Decimal(ref.year) \o <<"-">> \o ZeroPad(ref.seq)

\* f"RC{datetime.now().strftime('%Y%m%d%H%M%S')}"
LocalRefFull(t) ==
    [fmt |-> "RC_YmdHMS", prefix |-> <<"R", "C">>, year |-> 0, seq |-> t]

\* f"RC{datetime.now().strftime('%H%M%S')}": the time of day only
LocalRefHMS(t) ==
    [fmt |-> "RC_HMS", prefix |-> <<"R", "C">>, year |-> 0, seq |-> t % TicksPerDay]

\* ------------------------------------------------------------------ issue taxonomy
\* str.lower() on the issue phrases of the model
Lower(x) ==
    CASE x = "Water" -> "water" [] x = " Water " -> " water "
      [] x = "Pothole" -> "pothole" [] x = " Pothole " -> " pothole " [] OTHER -> x

\* str.strip() on the issue phrases of the model
Strip(x) ==
    CASE x = " water " -> "water" [] x = " Water " -> "Water"
      [] x = " pothole " -> "pothole" [] x = " Pothole " -> "Pothole" [] OTHER -> x

\* the keys of ISSUE_TYPE_MAP (complaint_tools.py)
IssueTypeMapKeys ==
    {"road", "roads", "pothole", "water", "electricity", "power", "drainage", "sewage",
     "garbage", "trash", "streetlight", "street light", "light",
     "ta_road", "ta_water", "ta_electricity", "ta_drainage", "ta_garbage",
     "ta_sanitation", "ta_streetlight", "ta_light"}

IssueTypeMap(k) ==
    CASE k \in {"road", "roads", "pothole", "ta_road"} -> "road"
      [] k \in {"water", "ta_water"} -> "water"
      [] k \in {"electricity", "power", "ta_electricity"} -> "electricity"
      [] k \in {"drainage", "sewage", "ta_drainage"} -> "drainage"
      [] k \in {"garbage", "trash", "ta_garbage", "ta_sanitation"} -> "garbage"
      [] OTHER -> "streetlight"

\* ISSUE_TYPE_MAP.get(k, k): a phrase that is no key passes through
NormalizeNoDefault(issue) ==
    LET k == Strip(Lower(issue))
    IN  IF k \in IssueTypeMapKeys THEN IssueTypeMap(k) ELSE k

\* normalize_issue_type: ISSUE_TYPE_MAP.get(issue.lower().strip(), "other")
NormalizeIssueType(issue) ==
    LET k == Strip(Lower(issue))
    IN  IF k \in IssueTypeMapKeys THEN IssueTypeMap(k) ELSE "other"

\* valid_types of tools.save_complaint
ValidTypes ==
    {"water", "road", "electricity", "drainage", "garbage", "streetlight", "other"}

\* the lower-cased phrase written without the check against valid_types
ToolsIssueTypeUnchecked(issue) == Lower(issue)

\* tools.save_complaint: "other" unless issue_type.lower() is a valid type
ToolsIssueType(issue) ==
    IF Lower(issue) \in ValidTypes THEN Lower(issue) ELSE "other"

\* issue_type_map.get(issue_type.lower(), "other") of agent_with_db
WdbIssueType(issue) ==
    LET k == Lower(issue)
    IN  IF k \in {"road", "water", "electricity", "garbage", "drainage", "streetlight",
                  "ta_road", "ta_water", "ta_electricity", "ta_sanitation",
                  "ta_drainage", "ta_garbage", "ta_streetlight"}
        THEN IssueTypeMap(k) ELSE "other"

\* ------------------------------------------------------------------ arguments of a save
NULL == "NULL"

Args(name, phone, issue, description, location, ward, transcript, duration) ==
    [citizen_name |-> name, citizen_phone |-> phone, issue_type |-> issue,
     description |-> description, location |-> location, ward |-> ward,
     landmark |-> "", transcript |-> transcript, duration |-> duration, audio_url |-> ""]

NoArgs == Args("", <<>>, "", "", "", "", "", 0)

\* phone numbers and names are sequences of characters
Digits == {"0", "1", "2", "3", "4", "5", "6", "7", "8", "9"}

\* the literal "unknown"
Unknown == <<"u", "n", "k", "n", "o", "w", "n">>

PhoneA == <<"+", "9", "1", "9", "8", "7", "6", "5", "4", "3", "2", "1", "0">>

PhoneB == <<"+", "9", "1", "6", "3", "6", "9", "6", "7", "5", "7", "4", "4">>

\* the arguments the direct callers of the save paths pass
CallArgs ==
    { Args("Lakshmi", Unknown, "water", "no water", "Anna Nagar", "", "", 0),
      Args("Kumar", PhoneA, "noise", "loud", "Main Road", "5", "t", 1) }

\* a location that always carries the ward prefix
FullLocationAlwaysWard(location, ward) == <<"Ward ", ward, ", ", location>>

\* full_location: "Ward {ward}, {location}" when a ward was given
FullLocation(location, ward) ==
    IF ward # "" THEN <<"Ward ", ward, ", ", location>> ELSE <<location>>

\* a field that is posted as it was passed
OrNullKeepsEmpty(x) == x

\* x if x else None, for a string
OrNull(x) == IF x = "" THEN NULL ELSE x

\* n if n > 0 else None, for a number: <<>> stands for None
PositiveOrNull(n) == IF n > 0 THEN <<n>> ELSE <<>>

VARIABLES now, configured, active, complaints, proc, room_global, sess, call_logs, pure,
          tenants, req, officers, job_assignments, collect_task

vars == <<now, configured, active, complaints, proc, room_global, sess, call_logs, pure, tenants, req,
          officers, job_assignments, collect_task>>

\* ------------------------------------------------------------------ results
NoResult ==
    [returned |-> FALSE, success |-> FALSE, complaint_number |-> NoRef,
     complaint_id |-> 0, local |-> FALSE, error |-> FALSE, http |-> 0]

NoReply == [kind |-> "none", ref |-> NoRef]

IdleProc ==
    [variant |-> "none", pc |-> "idle", called |-> NoTenant, arg_tenant |-> NoTenant,
     args |-> NoArgs, tenant_id |-> NoTenant, year |-> 0, number |-> NoRef,
     stored |-> 0, result |-> NoResult, reply |-> NoReply]

\* ------------------------------------------------------------------ store queries
\* tenants?is_active=eq.true&limit=1 : the rows the query may return first
ActiveTenants == active

\* the count query without its tenant_id filter
CountAnyTenant(t, y) ==
    Cardinality({c \in complaints : c.created_year >= y})

\* complaints?tenant_id=eq.{tenant_id}&created_at=gte.{year}-01-01&select=id
CountThisYear(t, y) ==
    Cardinality({c \in complaints : c.tenant_id = t /\ c.created_year >= y})

\* complaints?tenant_id=eq.{tenant_id}&select=id
CountAll(t) ==
    Cardinality({c \in complaints : c.tenant_id = t})

\* the row the store keeps for an accepted insert: the posted fields, the id
\* and created_at the store assigns
StoreRow(data) ==
    [id |-> Cardinality(complaints) + 1, created_year |-> YearOf(now),
     tenant_id |-> data.tenant_id, complaint_number |-> data.complaint_number,
     citizen_name |-> data.citizen_name, citizen_phone |-> data.citizen_phone,
     issue_type |-> data.issue_type, description |-> data.description,
     location |-> data.location, landmark |-> data.landmark,
     transcript |-> data.transcript, call_duration_seconds |-> data.duration,
     audio_url |-> data.audio_url, status |-> data.status]

\* a record that is posted as already assigned
CtComplaintDataAssigned(t, number, a) ==
    [tenant_id |-> t, complaint_number |-> number,
     citizen_name |-> a.citizen_name, citizen_phone |-> a.citizen_phone,
     issue_type |-> NormalizeIssueType(a.issue_type), description |-> a.description,
     location |-> FullLocation(a.location, a.ward), landmark |-> OrNull(a.landmark),
     transcript |-> OrNull(a.transcript), duration |-> PositiveOrNull(a.duration),
     audio_url |-> OrNull(a.audio_url), status |-> "assigned"]

\* complaint_data of complaint_tools.save_complaint_to_db (lines 163-185)
CtComplaintData(t, number, a) ==
    [tenant_id |-> t, complaint_number |-> number,
     citizen_name |-> a.citizen_name, citizen_phone |-> a.citizen_phone,
     issue_type |-> NormalizeIssueType(a.issue_type), description |-> a.description,
     location |-> FullLocation(a.location, a.ward), landmark |-> OrNull(a.landmark),
     transcript |-> OrNull(a.transcript), duration |-> PositiveOrNull(a.duration),
     audio_url |-> OrNull(a.audio_url), status |-> "new"]

\* the row create_complaint inserts (complaints.py lines 86-98)
ApiComplaintData(t, number, a) ==
    [tenant_id |-> t, complaint_number |-> number,
     citizen_name |-> a.citizen_name, citizen_phone |-> a.citizen_phone,
     issue_type |-> a.issue_type, description |-> a.description,
     location |-> <<a.location>>, landmark |-> a.landmark,
     transcript |-> NULL, duration |-> <<>>, audio_url |-> NULL, status |-> "new"]

\* complaint_data of tools.save_complaint (tools.py lines 129-147)
ToolsComplaintData(t, number, a) ==
    [tenant_id |-> t, complaint_number |-> number,
     citizen_name |-> a.citizen_name, citizen_phone |-> a.citizen_phone,
     issue_type |-> ToolsIssueType(a.issue_type), description |-> a.description,
     location |-> <<a.location>>, landmark |-> a.landmark,
     transcript |-> NULL, duration |-> <<>>, audio_url |-> NULL, status |-> "new"]

\* complaint_data of agent_with_db.save_complaint_to_db (lines 100-134)
WdbComplaintData(t, number, a) ==
    [tenant_id |-> t, complaint_number |-> number,
     citizen_name |-> a.citizen_name, citizen_phone |-> a.citizen_phone,
     issue_type |-> WdbIssueType(a.issue_type), description |-> a.description,
     location |-> FullLocation(a.location, a.ward), landmark |-> NULL,
     transcript |-> NULL, duration |-> <<>>, audio_url |-> NULL, status |-> "new"]

\* ------------------------------------------------------------------ save_complaint_to_db (complaint_tools)
\* the four fallback returns and the successful return
CtNotConfigured(t) ==
    [NoResult EXCEPT !.returned = TRUE, !.success = TRUE,
                     !.complaint_number = LocalRefFull(t), !.local = TRUE]

CtNoTenant(t) ==
    [NoResult EXCEPT !.returned = TRUE, !.success = TRUE,
                     !.complaint_number = LocalRefHMS(t), !.local = TRUE]

\* a rejected insert whose result still names a complaint id
CtInsertFailedWithId(t) ==
    [NoResult EXCEPT !.returned = TRUE, !.success = TRUE,
                     !.complaint_number = LocalRefHMS(t), !.error = TRUE,
                     !.complaint_id = 1]

\* a rejected insert that raises out of save_complaint_to_db: nothing is returned
CtInsertFailedRaises(t) ==
    [NoResult EXCEPT !.error = TRUE, !.http = 1]

CtInsertFailed(t) ==
    [NoResult EXCEPT !.returned = TRUE, !.success = TRUE,
                     !.complaint_number = LocalRefHMS(t), !.error = TRUE]

\* a handler that lets the exception leave save_complaint_to_db: nothing is returned
CtExceptionPropagates(t) ==
    [NoResult EXCEPT !.error = TRUE]

CtException(t) ==
    [NoResult EXCEPT !.returned = TRUE, !.success = TRUE,
                     !.complaint_number = LocalRefHMS(t), !.error = TRUE]

CtSaved(number, id) ==
    [NoResult EXCEPT !.returned = TRUE, !.success = TRUE,
                     !.complaint_number = number, !.complaint_id = id]

Return(p, res) ==
    proc' = [proc EXCEPT ![p].pc = "done", ![p].result = res]

\* entry of save_complaint_to_db: the configuration check (lines 133-136)
CtEnter(p, a, called) ==
    IF ~configured
    THEN proc' = [proc EXCEPT ![p] = [IdleProc EXCEPT !.variant = "ct", !.pc = "done",
                                      !.called = called, !.args = a,
                                      !.result = CtNotConfigured(now)]]
    ELSE proc' = [proc EXCEPT ![p] = [IdleProc EXCEPT !.variant = "ct", !.pc = "tenant",
                                      !.called = called, !.args = a]]

\* save_complaint_to_db is invoked at the end of a call that was placed to the
\* number of tenant `called`; the function is given no tenant and no called number
CtCall(p) ==
    /\ proc[p].pc = "idle"
    /\ \E a \in CallArgs : \E called \in TenantIds : CtEnter(p, a, called)
    /\ UNCHANGED <<now, configured, active, complaints, room_global, sess, call_logs, pure, tenants, req,
                   officers, job_assignments, collect_task>>

\* step 1: GET tenants?is_active=eq.true&limit=1 (lines 141-154)
CtGetTenant(p) ==
    /\ proc[p].pc = "tenant" /\ proc[p].variant = "ct"
    /\ \/ \* the request raises
          Return(p, CtException(now))
       \/ \* status other than 200
          Return(p, CtNoTenant(now))
       \/ \* 200 with no row: there is no active tenant
          /\ ActiveTenants = {}
          /\ Return(p, CtNoTenant(now))
       \/ \E t \in ActiveTenants :
             proc' = [proc EXCEPT ![p].pc = "count", ![p].tenant_id = t,
                                  ![p].year = YearOf(now)]
    /\ UNCHANGED <<now, configured, active, complaints, room_global, sess, call_logs, pure, tenants, req,
                   officers, job_assignments, collect_task>>

\* step 2: count the tenant's complaints of the year, build the number (lines 156-185)
CtGetCount(p) ==
    /\ proc[p].pc = "count" /\ proc[p].variant = "ct"
    /\ LET t == proc[p].tenant_id
           y == proc[p].year
           pre == Prefix3(Constituency(t))
       IN \/ Return(p, CtException(now))
          \/ \E count \in {CountThisYear(t, y) + 1, 1} :
                proc' = [proc EXCEPT ![p].pc = "insert",
                                     ![p].number = FormatNumber(pre, y, count)]
    /\ UNCHANGED <<now, configured, active, complaints, room_global, sess, call_logs, pure, tenants, req,
                   officers, job_assignments, collect_task>>

\* step 6: POST complaints (lines 187-208)
CtInsert(p) ==
    /\ proc[p].pc = "insert" /\ proc[p].variant = "ct"
    /\ LET row == StoreRow(CtComplaintData(proc[p].tenant_id, proc[p].number, proc[p].args))
       IN \/ \* 200/201 with the stored row
             /\ complaints' = complaints \cup {row}
             /\ proc' = [proc EXCEPT ![p].pc = "done", ![p].stored = row.id,
                                     ![p].result = CtSaved(proc[p].number, row.id)]
          \/ \* 200/201 with an empty representation
             /\ complaints' = complaints \cup {row}
             /\ proc' = [proc EXCEPT ![p].pc = "done", ![p].stored = row.id,
                                     ![p].result = CtSaved(proc[p].number, 0)]
          \/ \* rejected by the store
             /\ complaints' = complaints
             /\ Return(p, CtInsertFailed(now))
          \/ \* the request raises before the store commits
             /\ complaints' = complaints
             /\ Return(p, CtException(now))
          \/ \* the store commits and the response is lost
             /\ complaints' = complaints \cup {row}
             /\ proc' = [proc EXCEPT ![p].pc = "done", ![p].stored = row.id,
                                     ![p].result = CtException(now)]
    /\ UNCHANGED <<now, configured, active, room_global, sess, call_logs, pure, tenants, req,
                   officers, job_assignments, collect_task>>

\* ------------------------------------------------------------------ create_complaint (backend api)
ApiError(status) ==
    [NoResult EXCEPT !.returned = TRUE, !.http = status, !.error = TRUE]

ApiCreated(number, id) ==
    [NoResult EXCEPT !.returned = TRUE, !.success = TRUE, !.http = 200,
                     !.complaint_number = number, !.complaint_id = id]

\* POST /api/complaints/ with a tenant_id of the request (lines 39-59)
ApiCall(p) ==
    /\ proc[p].pc = "idle"
    /\ \E tid \in TenantIds \cup {NoTenant} :
       \E a \in {x \in CallArgs : x.issue_type \in ValidTypes} :
          proc' = [proc EXCEPT ![p] = [IdleProc EXCEPT !.variant = "api", !.pc = "tenant",
                                                       !.arg_tenant = tid, !.args = a]]
    /\ UNCHANGED <<now, configured, active, complaints, room_global, sess, call_logs, pure, tenants, req,
                   officers, job_assignments, collect_task>>

\* verify the tenant exists; year = datetime.now().year (lines 61-74)
ApiGetTenant(p) ==
    /\ proc[p].pc = "tenant" /\ proc[p].variant = "api"
    /\ \/ Return(p, ApiError(500))
       \/ /\ proc[p].arg_tenant \notin TenantIds
          /\ Return(p, ApiError(404))
       \/ /\ proc[p].arg_tenant \in TenantIds
          /\ proc' = [proc EXCEPT ![p].pc = "count", ![p].tenant_id = proc[p].arg_tenant,
                                  ![p].year = YearOf(now)]
    /\ UNCHANGED <<now, configured, active, complaints, room_global, sess, call_logs, pure, tenants, req,
                   officers, job_assignments, collect_task>>

\* count = (existing.count or 0) + 1 and the number (lines 75-83)
ApiGetCount(p) ==
    /\ proc[p].pc = "count" /\ proc[p].variant = "api"
    /\ LET t == proc[p].tenant_id
           y == proc[p].year
       IN \/ Return(p, ApiError(500))
          \/ proc' = [proc EXCEPT ![p].pc = "insert",
                        ![p].number = FormatNumber(Prefix3(Constituency(t)), y,
                                                   CountThisYear(t, y) + 1)]
    /\ UNCHANGED <<now, configured, active, complaints, room_global, sess, call_logs, pure, tenants, req,
                   officers, job_assignments, collect_task>>

\* insert and answer (lines 85-115)
ApiInsert(p) ==
    /\ proc[p].pc = "insert" /\ proc[p].variant = "api"
    /\ LET row == StoreRow(ApiComplaintData(proc[p].tenant_id, proc[p].number, proc[p].args))
       IN \/ /\ complaints' = complaints \cup {row}
             /\ proc' = [proc EXCEPT ![p].pc = "done", ![p].stored = row.id,
                                     ![p].result = ApiCreated(proc[p].number, row.id)]
          \/ \* no row came back, or the insert raised: 500
             /\ complaints' = complaints
             /\ Return(p, ApiError(500))
          \/ \* the store committed and the response was lost: 500
             /\ complaints' = complaints \cup {row}
             /\ proc' = [proc EXCEPT ![p].pc = "done", ![p].stored = row.id,
                                     ![p].result = ApiError(500)]
    /\ UNCHANGED <<now, configured, active, room_global, sess, call_logs, pure, tenants, req,
                   officers, job_assignments, collect_task>>

\* ------------------------------------------------------------------ save_complaint (tools) under agent.py save_complaint_tool
ToolsFailed ==
    [NoResult EXCEPT !.returned = TRUE, !.error = TRUE]

ToolsSaved(number, id) ==
    [NoResult EXCEPT !.returned = TRUE, !.success = TRUE,
                     !.complaint_number = number, !.complaint_id = id]

\* the string save_complaint_tool hands back to the dialogue (agent.py lines 250-252)
ToolReply(res) ==
    IF res.success
    THEN [kind |-> "registered", ref |-> res.complaint_number]
    ELSE [kind |-> "error", ref |-> NoRef]

ToolsReturn(p, res) ==
    proc' = [proc EXCEPT ![p].pc = "done", ![p].result = res, ![p].reply = ToolReply(res)]

\* agent.py entrypoint up to the agent: the called number of the room metadata (of
\* tenant `called`, or of no tenant) and get_tenant_by_phone, which answers the
\* tenant of that number, or None when none matches or the request fails
AgentEntrypoint(p) ==
    /\ proc[p].pc = "idle"
    /\ \E called \in TenantIds \cup {NoTenant} :
       \E tid \in {called, NoTenant} :
          proc' = [proc EXCEPT ![p] = [IdleProc EXCEPT !.variant = "tools", !.pc = "greet",
                                                       !.called = called, !.arg_tenant = tid]]
    /\ UNCHANGED <<now, configured, active, complaints, room_global, sess, call_logs, pure, tenants, req,
                   officers, job_assignments, collect_task>>

\* one call of log_call: the attempt, and whether the store kept the entry
LogEntry(p, status, stored) ==
    [room |-> p, tenant_id |-> proc[p].arg_tenant, called |-> proc[p].called,
     call_status |-> status, stored |-> stored]

\* the greeting, then log_call(..., call_status="in_progress"); its result is not read
AgentLogCall(p) ==
    /\ proc[p].pc = "greet" /\ proc[p].variant = "tools"
    /\ \E stored \in BOOLEAN :
          call_logs' = call_logs \cup {LogEntry(p, "in_progress", stored)}
    /\ proc' = [proc EXCEPT ![p].pc = "ready"]
    /\ UNCHANGED <<now, configured, active, complaints, room_global, sess, pure, tenants, req,
                   officers, job_assignments, collect_task>>

\* save_complaint_tool is invoked with agent.tenant_id (None when no tenant was resolved)
ToolsCall(p) ==
    /\ proc[p].pc = "ready" /\ proc[p].variant = "tools"
    /\ \E a \in CallArgs :
          proc' = [proc EXCEPT ![p] = [IdleProc EXCEPT !.variant = "tools", !.pc = "tenant",
                                          !.called = proc[p].called,
                                          !.arg_tenant = proc[p].arg_tenant, !.args = a]]
    /\ UNCHANGED <<now, configured, active, complaints, room_global, sess, call_logs, pure, tenants, req,
                   officers, job_assignments, collect_task>>

\* GET tenants?id=eq.{tenant_id} (tools.py lines 104-116)
ToolsGetTenant(p) ==
    /\ proc[p].pc = "tenant" /\ proc[p].variant = "tools"
    /\ \/ ToolsReturn(p, ToolsFailed)
       \/ /\ proc[p].arg_tenant \notin TenantIds
          /\ ToolsReturn(p, ToolsFailed)
       \/ /\ proc[p].arg_tenant \in TenantIds
          /\ proc' = [proc EXCEPT ![p].pc = "count", ![p].tenant_id = proc[p].arg_tenant,
                                  ![p].year = YearOf(now)]
    /\ UNCHANGED <<now, configured, active, complaints, room_global, sess, call_logs, pure, tenants, req,
                   officers, job_assignments, collect_task>>

\* count of all the tenant's complaints, no year filter (tools.py lines 118-127)
ToolsGetCount(p) ==
    /\ proc[p].pc = "count" /\ proc[p].variant = "tools"
    /\ LET t == proc[p].tenant_id
       IN \/ ToolsReturn(p, ToolsFailed)
          \/ \E count \in {CountAll(t) + 1, 1} :
                proc' = [proc EXCEPT ![p].pc = "insert",
                           ![p].number = FormatNumber(Prefix3(Constituency(t)),
                                                      proc[p].year, count)]
    /\ UNCHANGED <<now, configured, active, complaints, room_global, sess, call_logs, pure, tenants, req,
                   officers, job_assignments, collect_task>>

\* POST complaints (tools.py lines 149-167)
ToolsInsert(p) ==
    /\ proc[p].pc = "insert" /\ proc[p].variant = "tools"
    /\ LET row == StoreRow(ToolsComplaintData(proc[p].tenant_id, proc[p].number, proc[p].args))
       IN \/ /\ complaints' = complaints \cup {row}
             /\ \E id \in {row.id, 0} :
                   proc' = [proc EXCEPT ![p].pc = "done", ![p].stored = row.id,
                              ![p].result = ToolsSaved(proc[p].number, id),
                              ![p].reply = ToolReply(ToolsSaved(proc[p].number, id))]
          \/ /\ complaints' = complaints
             /\ ToolsReturn(p, ToolsFailed)
          \/ /\ complaints' = complaints \cup {row}
             /\ proc' = [proc EXCEPT ![p].pc = "done", ![p].stored = row.id,
                                     ![p].result = ToolsFailed,
                                     ![p].reply = ToolReply(ToolsFailed)]
    /\ UNCHANGED <<now, configured, active, room_global, sess, call_logs, pure, tenants, req,
                   officers, job_assignments, collect_task>>

\* ------------------------------------------------------------------ Assistant.save_complaint (agent_with_db)
\* str(hash(citizen_name))[-3:] : the digits differ from process to process
HashDigits == {0, 1}

WdbFailed ==
    [NoResult EXCEPT !.returned = TRUE, !.error = TRUE]

WdbSaved(number) ==
    [NoResult EXCEPT !.returned = TRUE, !.success = TRUE, !.complaint_number = number]

\* the string Assistant.save_complaint returns (agent_with_db.py lines 283-289)
WdbReply(res, h) ==
    IF res.success
    THEN [kind |-> "saved", ref |-> res.complaint_number]
    ELSE [kind |-> "noted",
          ref |-> [fmt |-> "RC2025_hash", prefix |-> <<"R", "C">>, year |-> 0, seq |-> h]]

WdbReturn(p, res) ==
    \E h \in HashDigits :
        proc' = [proc EXCEPT ![p].pc = "done", ![p].result = res, ![p].reply = WdbReply(res, h)]

\* Assistant.save_complaint up to the configuration check of save_complaint_to_db
WdbCall(p) ==
    /\ proc[p].pc = "idle"
    /\ \E a \in CallArgs :
          IF ~configured
          THEN \E h \in HashDigits :
                  proc' = [proc EXCEPT ![p] = [IdleProc EXCEPT !.variant = "wdb", !.pc = "done",
                               !.args = a, !.result = WdbFailed, !.reply = WdbReply(WdbFailed, h)]]
          ELSE proc' = [proc EXCEPT ![p] = [IdleProc EXCEPT !.variant = "wdb", !.pc = "tenant",
                                                            !.args = a]]
    /\ UNCHANGED <<now, configured, active, complaints, room_global, sess, call_logs, pure, tenants, req,
                   officers, job_assignments, collect_task>>

\* GET tenants?limit=1 : any tenant, active or not (agent_with_db.py lines 75-87)
WdbGetTenant(p) ==
    /\ proc[p].pc = "tenant" /\ proc[p].variant = "wdb"
    /\ \/ WdbReturn(p, WdbFailed)
       \/ \E t \in TenantIds :
             proc' = [proc EXCEPT ![p].pc = "count", ![p].tenant_id = t,
                                  ![p].year = YearOf(now)]
    /\ UNCHANGED <<now, configured, active, complaints, room_global, sess, call_logs, pure, tenants, req,
                   officers, job_assignments, collect_task>>

\* count of all the tenant's complaints (agent_with_db.py lines 89-98)
WdbGetCount(p) ==
    /\ proc[p].pc = "count" /\ proc[p].variant = "wdb"
    /\ LET t == proc[p].tenant_id
       IN \/ WdbReturn(p, WdbFailed)
          \/ \E count \in {CountAll(t) + 1, 1} :
                proc' = [proc EXCEPT ![p].pc = "insert",
                           ![p].number = FormatNumber(Prefix3(Constituency(t)),
                                                      proc[p].year, count)]
    /\ UNCHANGED <<now, configured, active, complaints, room_global, sess, call_logs, pure, tenants, req,
                   officers, job_assignments, collect_task>>

\* POST complaints (agent_with_db.py lines 136-151)
WdbInsert(p) ==
    /\ proc[p].pc = "insert" /\ proc[p].variant = "wdb"
    /\ LET row == StoreRow(WdbComplaintData(proc[p].tenant_id, proc[p].number, proc[p].args))
       IN \/ /\ complaints' = complaints \cup {row}
             /\ proc' = [proc EXCEPT ![p].pc = "done", ![p].stored = row.id,
                           ![p].result = WdbSaved(proc[p].number),
                           ![p].reply = WdbReply(WdbSaved(proc[p].number), 0)]
          \/ /\ complaints' = complaints
             /\ WdbReturn(p, WdbFailed)
          \/ /\ complaints' = complaints \cup {row}
             /\ \E h \in HashDigits :
                   proc' = [proc EXCEPT ![p].pc = "done", ![p].stored = row.id,
                              ![p].result = WdbFailed, ![p].reply = WdbReply(WdbFailed, h)]
    /\ UNCHANGED <<now, configured, active, room_global, sess, call_logs, pure, tenants, req,
                   officers, job_assignments, collect_task>>

\* ------------------------------------------------------------------ agent_v3: slot tasks
Sessions == {"p1"}

MaxLate == 1

DefaultName == "friend_ta"

Names == {"Lakshmi", "Kumar"}

\* (issue_type, description) pairs the dialogue may hand to got_issue
IssueAnswers == {<<"water", "no water">>, <<"noise", "loud">>}

\* the issue types the task's instructions list as valid, in the model's phrases
InDomainIssues == {"water"}

\* (location, ward) pairs the dialogue may hand to got_location
LocationAnswers == {<<"Anna Nagar", "">>, <<"Main Road", "5">>}

\* get_honorific(name): "madam" for a name get_gender_from_name takes as female
Honorific(name) == IF name = "Lakshmi" THEN "madam_ta" ELSE "sir_ta"

NoneResult == [kind |-> "None", a |-> "", b |-> ""]

CollectedName(name) == [kind |-> "name", a |-> name, b |-> ""]

CollectedIssue(issue, description) == [kind |-> "issue", a |-> issue, b |-> description]

CollectedLocation(location, ward) == [kind |-> "location", a |-> location, b |-> ward]

NewTask ==
    [state |-> "new", result |-> NoneResult, results |-> 0, late |-> 0, invalid |-> 0,
     carried |-> <<>>]

\* AgentTask.complete(result): the first call on an active task sets the result,
\* a call on a task that is already done raises and changes nothing
Complete(task, res) ==
    IF task.state = "active"
    THEN [task EXCEPT !.state = "completed", !.result = res, !.results = @ + 1]
    ELSE [task EXCEPT !.invalid = @ + 1]

\* a handler that stores its result itself, whatever the state of the task
StoreResultDirectly(task, res) ==
    [task EXCEPT !.state = "completed", !.result = res, !.results = @ + 1]

\* body of the three answer callbacks: self.complete(Collected...(...))
CompleteWith(task, res) == Complete(task, res)

\* an issue task that addresses every caller by the default name
IssueTaskWithoutName(caller_name, honorific) ==
    [NewTask EXCEPT !.state = "active", !.carried = <<DefaultName, Honorific(DefaultName)>>]

\* CollectIssueTask(caller_name, honorific), entered: it keeps both for its prompts
CollectIssueTask(caller_name, honorific) ==
    [NewTask EXCEPT !.state = "active", !.carried = <<caller_name, honorific>>]

\* the room of a call: its name and the identities of its remote participants
SipPrefix == <<"s", "i", "p", "_">>

WebIdentity == <<"w", "e", "b">>

\* "call-_+919876543210_x", shortened to "c_+919876543210_x"
RoomNameA == <<"c", "_">> \o PhoneA \o <<"_", "x">>

\* a room name that embeds no number
RoomNamePlain == <<"r", "o", "o", "m">>

Rooms ==
    { [name |-> RoomNameA, identities |-> <<SipPrefix \o PhoneB>>],
      [name |-> RoomNamePlain, identities |-> <<WebIdentity, SipPrefix \o PhoneB>>] }

NoRoom == [name |-> <<>>, identities |-> <<>>]

OffSess ==
    [pc |-> "off", connected |-> FALSE, room |-> NoRoom, start_time |-> 0,
     tasks |-> [name |-> NewTask, issue |-> NewTask, location |-> NewTask],
     caller_name |-> "", honorific |-> "", issue_type |-> "", description |-> "",
     location |-> "", ward |-> "", caller_phone |-> <<>>, transcript |-> "",
     said |-> {}, ref |-> NoRef]

\* the pattern \+91\d{10}: the number of digits after "+91"
NationalDigits == 10

\* len("sip_")
SipPrefixLen == 4

\* the pattern matches at position i of the name
MatchAt(name, i) ==
    /\ i + 2 + NationalDigits <= Len(name)
    /\ name[i] = "+" /\ name[i + 1] = "9" /\ name[i + 2] = "1"
    /\ \A k \in 3..(2 + NationalDigits) : name[i + k] \in Digits

\* a search that keeps the digits after "+91" only
SearchPhoneDigitsOnly(name) ==
    LET at == {i \in 1..Len(name) : MatchAt(name, i)}
    IN  IF at = {} THEN <<>>
        ELSE LET i == CHOOSE x \in at : \A y \in at : x <= y
             IN  SubSeq(name, i + 3, i + 2 + NationalDigits)

\* re.search(r'\+91\d{10}', ROOM_NAME): the leftmost match, <<>> for no match
SearchPhone(name) ==
    LET at == {i \in 1..Len(name) : MatchAt(name, i)}
    IN  IF at = {} THEN <<>>
        ELSE LET i == CHOOSE x \in at : \A y \in at : x <= y
             IN  SubSeq(name, i, i + 2 + NationalDigits)

\* identity.startswith("sip_")
StartsWithSip(identity) ==
    /\ Len(identity) >= SipPrefixLen
    /\ SubSeq(identity, 1, SipPrefixLen) = SipPrefix

\* first participant whose identity starts with "sip_": identity[4:]
RECURSIVE FirstSip(_)
FirstSip(ids) ==
    IF ids = <<>> THEN Unknown
    ELSE IF StartsWithSip(Head(ids))
         THEN SubSeq(Head(ids), SipPrefixLen + 1, Len(Head(ids)))
         ELSE FirstSip(Tail(ids))

\* the SIP participant first, the room-name pattern only without one
ResolvePhoneSipFirst(room) ==
    IF FirstSip(room.identities) # Unknown THEN FirstSip(room.identities)
    ELSE IF SearchPhone(room.name) # <<>> THEN SearchPhone(room.name)
    ELSE Unknown

\* step 5 of on_enter: the room-name pattern first, then the SIP participant
ResolvePhone(room) ==
    IF SearchPhone(room.name) # <<>> THEN SearchPhone(room.name)
    ELSE FirstSip(room.identities)

\* name_result.name without the check: reading .name of None raises
NameNoDefault(res) == IF res.kind = "None" THEN "AttributeError" ELSE res.a

\* name_result.name if name_result else the default
NameOrDefault(res) == IF res.kind = "None" THEN DefaultName ELSE res.a

\* issue_result.issue without the check: reading .issue of None raises
IssueNoDefault(res) == IF res.kind = "None" THEN "AttributeError" ELSE res.a

\* issue_result.issue if issue_result else "other"
IssueOrDefault(res) == IF res.kind = "None" THEN "other" ELSE res.a

\* issue_result.description if issue_result else ""
DescriptionOrDefault(res) == IF res.kind = "None" THEN "" ELSE res.b

\* location_result.location if location_result else ""
LocationOrDefault(res) == IF res.kind = "None" THEN "" ELSE res.a

\* location_result.ward if location_result else ""
WardOrDefault(res) == IF res.kind = "None" THEN "" ELSE res.b

\* result.get('complaint_number', 'RC000')
RC000 == [fmt |-> "RC000", prefix |-> <<"R", "C">>, year |-> 0, seq |-> 0]

\* a confirmation that speaks the default whatever the save returned
RefAlwaysDefault(res) == RC000

RefOf(res) == IF res.complaint_number = NoRef THEN RC000 ELSE res.complaint_number

Ended(task) == task.state \in {"completed", "closed"}

\* ------------------------------------------------------------------ agent_v3: entrypoint and on_enter
\* entrypoint: the globals ROOM and ROOM_NAME, then session.start (lines 349-376)
Entrypoint(s) ==
    /\ sess[s].pc = "off"
    /\ \E r \in Rooms :
          sess' = [sess EXCEPT ![s].pc = "greet", ![s].connected = TRUE, ![s].room = r]
    /\ room_global' = s
    /\ UNCHANGED <<now, configured, active, complaints, proc, call_logs, pure, tenants, req,
                   officers, job_assignments, collect_task>>

\* on_enter step 1: the greeting (lines 217-222)
Greet(s) ==
    /\ sess[s].pc = "greet"
    /\ sess' = [sess EXCEPT ![s].pc = "enter_name", ![s].start_time = now,
                            ![s].said = @ \cup {"greeting"}]
    /\ UNCHANGED <<now, configured, active, complaints, proc, room_global, call_logs, pure, tenants, req,
                   officers, job_assignments, collect_task>>

\* await CollectNameTask(...): the task is entered and asks for the name (lines 226, 109-113)
EnterName(s) ==
    /\ sess[s].pc = "enter_name"
    /\ sess' = [sess EXCEPT ![s].pc = "await_name",
                            ![s].tasks.name = [NewTask EXCEPT !.state = "active"],
                            ![s].said = @ \cup {"ask_name"}]
    /\ UNCHANGED <<now, configured, active, complaints, proc, room_global, call_logs, pure, tenants, req,
                   officers, job_assignments, collect_task>>

\* callbacks of the session that arrived after their task had completed
LateTotal(s) ==
    sess[s].tasks.name.late + sess[s].tasks.issue.late + sess[s].tasks.location.late

\* an answer callback may arrive while its task is awaited: on the active task,
\* or once more after it completed and before the orchestrator resumed
Callable(s, k, stage) ==
    /\ sess[s].pc = stage
    /\ sess[s].connected
    /\ \/ sess[s].tasks[k].state = "active"
       \/ sess[s].tasks[k].state = "completed" /\ LateTotal(s) < MaxLate

Answered(task, res) ==
    [CompleteWith(task, res) EXCEPT !.late = IF task.state = "completed" THEN @ + 1 ELSE @]

\* CollectNameTask.got_name (lines 115-123)
GotNameFrom(s, names) ==
    /\ Callable(s, "name", "await_name")
    /\ \E n \in names :
          sess' = [sess EXCEPT ![s].tasks.name = Answered(@, CollectedName(n))]
    /\ UNCHANGED <<now, configured, active, complaints, proc, room_global, call_logs, pure, tenants, req,
                   officers, job_assignments, collect_task>>

GotName(s) == GotNameFrom(s, Names)

\* CollectIssueTask.got_issue (lines 157-166)
GotIssueFrom(s, answers) ==
    /\ Callable(s, "issue", "await_issue")
    /\ \E a \in answers :
          sess' = [sess EXCEPT ![s].tasks.issue = Answered(@, CollectedIssue(a[1], a[2]))]
    /\ UNCHANGED <<now, configured, active, complaints, proc, room_global, call_logs, pure, tenants, req,
                   officers, job_assignments, collect_task>>

GotIssue(s) == GotIssueFrom(s, IssueAnswers)

\* the dialogue answers an unclear or out-of-domain utterance in words, calling no
\* function: "If unclear, ask for more details" (lines 139-146)
ClarifyIssue(s) ==
    /\ sess[s].pc = "await_issue" /\ sess[s].connected
    /\ sess[s].tasks.issue.state = "active"
    /\ sess' = [sess EXCEPT ![s].said = @ \cup {"clarify"}]
    /\ UNCHANGED <<now, configured, active, complaints, proc, room_global, call_logs, pure, tenants, req,
                   officers, job_assignments, collect_task>>

\* CollectLocationTask.got_location (lines 192-201)
GotLocationFrom(s, answers) ==
    /\ Callable(s, "location", "await_location")
    /\ \E a \in answers :
          sess' = [sess EXCEPT ![s].tasks.location = Answered(@, CollectedLocation(a[1], a[2]))]
    /\ UNCHANGED <<now, configured, active, complaints, proc, room_global, call_logs, pure, tenants, req,
                   officers, job_assignments, collect_task>>

GotLocation(s) == GotLocationFrom(s, LocationAnswers)

\* the call drops
CallEnds(s) ==
    /\ sess[s].connected
    /\ sess[s].pc \notin {"off", "confirmed", "crashed"}
    /\ sess' = [sess EXCEPT ![s].connected = FALSE]
    /\ UNCHANGED <<now, configured, active, complaints, proc, room_global, call_logs, pure, tenants, req,
                   officers, job_assignments, collect_task>>

\* the awaited task of a call that has ended yields no result
TaskCloses(s) ==
    /\ ~sess[s].connected
    /\ \E k \in {"name", "issue", "location"} :
          /\ sess[s].tasks[k].state = "active"
          /\ sess' = [sess EXCEPT ![s].tasks[k].state = "closed"]
    /\ UNCHANGED <<now, configured, active, complaints, proc, room_global, call_logs, pure, tenants, req,
                   officers, job_assignments, collect_task>>

\* lines 227-233: the name or its default, the honorific, then the issue task,
\* constructed with both, is entered and asks for the issue
AfterName(s) ==
    /\ sess[s].pc = "await_name"
    /\ Ended(sess[s].tasks.name)
    /\ LET name == NameOrDefault(sess[s].tasks.name.result)
       IN IF name = "AttributeError"
          THEN sess' = [sess EXCEPT ![s].pc = "crashed"]
          ELSE sess' = [sess EXCEPT ![s].pc = "await_issue",
                          ![s].caller_name = name, ![s].honorific = Honorific(name),
                          ![s].tasks.issue = CollectIssueTask(name, Honorific(name)),
                          ![s].said = @ \cup {"ask_issue"}]
    /\ UNCHANGED <<now, configured, active, complaints, proc, room_global, call_logs, pure, tenants, req,
                   officers, job_assignments, collect_task>>

\* lines 234-240: the issue or its defaults, then the location task
AfterIssue(s) ==
    /\ sess[s].pc = "await_issue"
    /\ Ended(sess[s].tasks.issue)
    /\ LET issue == IssueOrDefault(sess[s].tasks.issue.result)
       IN IF issue = "AttributeError"
          THEN sess' = [sess EXCEPT ![s].pc = "crashed"]
          ELSE sess' = [sess EXCEPT ![s].pc = "await_location",
                          ![s].issue_type = issue,
                          ![s].description = DescriptionOrDefault(sess[s].tasks.issue.result),
                          ![s].tasks.location = [NewTask EXCEPT !.state = "active"],
                          ![s].said = @ \cup {"ask_location"}]
    /\ UNCHANGED <<now, configured, active, complaints, proc, room_global, call_logs, pure, tenants, req,
                   officers, job_assignments, collect_task>>

\* lines 241-321: the location or its defaults, the caller phone (an exception
\* leaves "unknown"), the transcript (an exception leaves the summary alone), and
\* the call of save_complaint_to_db up to its first request
Finalize(s) ==
    /\ sess[s].pc = "await_location"
    /\ Ended(sess[s].tasks.location)
    /\ room_global \in DOMAIN sess
    /\ LET location == LocationOrDefault(sess[s].tasks.location.result)
           ward == WardOrDefault(sess[s].tasks.location.result)
           duration == now - sess[s].start_time
       IN \E phone \in {ResolvePhone(sess[room_global].room), Unknown} :
          \E transcript \in {"summary+conversation", "summary+summary"} :
             /\ sess' = [sess EXCEPT ![s].pc = "saving", ![s].location = location,
                            ![s].ward = ward, ![s].caller_phone = phone,
                            ![s].transcript = transcript]
             /\ CtEnter(s, Args(sess[s].caller_name, phone, sess[s].issue_type,
                                sess[s].description, location, ward, transcript, duration),
                        NoTenant)
    /\ UNCHANGED <<now, configured, active, complaints, room_global, call_logs, pure, tenants, req,
                   officers, job_assignments, collect_task>>

\* lines 323-329: the reference number of the result, spoken in the confirmation
Confirm(s) ==
    /\ sess[s].pc = "saving"
    /\ proc[s].pc = "done"
    /\ IF ~proc[s].result.returned
       THEN sess' = [sess EXCEPT ![s].pc = "crashed"]
       ELSE sess' = [sess EXCEPT ![s].pc = "confirmed", ![s].ref = RefOf(proc[s].result),
                                 ![s].said = @ \cup {"confirmation"}]
    /\ UNCHANGED <<now, configured, active, complaints, proc, room_global, call_logs, pure, tenants, req,
                   officers, job_assignments, collect_task>>

\* ------------------------------------------------------------------ backend: tenants api
\* the requests the backend serves at a time
Reqs == {"r1", "r2"}

\* rows the tenants table holds at most
MaxTenants == 2

\* values of phone_number in the bodies of create_tenant
TenantPhones == {PhoneA, PhoneB}

IdleReq ==
    [op |-> "none", pc |-> "idle", phone |-> <<>>, id |-> 0, updates |-> <<>>,
     status |-> "", http |-> 0, tenant |-> NoTenant, complaint |-> 0]

\* the end of a request: its operation and its HTTP status are kept
Answer(r, status) ==
    req' = [req EXCEPT ![r] = [IdleReq EXCEPT !.op = req[r].op, !.pc = "done",
                                             !.http = status]]

\* an answer given before anything was written
Refuse(r, op, status) ==
    req' = [req EXCEPT ![r] = [IdleReq EXCEPT !.op = op, !.pc = "done", !.http = status]]

\* the row create_tenant inserts (lines 77-86), with the id the store assigns
TenantRow(phone) ==
    [id |-> Cardinality(tenants) + 1, phone_number |-> phone, name |-> "n1",
     is_active |-> TRUE, created_at |-> <<now>>]

\* create_tenant: select id where phone_number = the new number; 400 when a row
\* came back (lines 58-66)
CreateTenantCheck(r) ==
    /\ req[r].pc \in {"idle", "done"}
    /\ \E phone \in TenantPhones :
          \/ Refuse(r, "create", 500)
          \/ /\ \E t \in tenants : t.phone_number = phone
             /\ Refuse(r, "create", 400)
          \/ /\ ~\E t \in tenants : t.phone_number = phone
             /\ req' = [req EXCEPT ![r] = [IdleReq EXCEPT !.op = "create", !.pc = "insert",
                                                         !.phone = phone]]
    /\ UNCHANGED <<now, configured, active, complaints, proc, room_global, sess, call_logs,
                   pure, tenants,
                   officers, job_assignments, collect_task>>

\* create_tenant: the insert with is_active True and the answer (lines 77-99)
CreateTenantInsert(r) ==
    /\ req[r].pc = "insert" /\ req[r].op = "create"
    /\ \/ /\ Cardinality(tenants) < MaxTenants
          /\ tenants' = tenants \cup {TenantRow(req[r].phone)}
          /\ Answer(r, 200)
       \/ /\ tenants' = tenants
          /\ Answer(r, 500)
    /\ UNCHANGED <<now, configured, active, complaints, proc, room_global, sess, call_logs,
                   pure,
                   officers, job_assignments, collect_task>>

\* bodies of update_tenant: a function from column names to values
UpdateBodies ==
    { [k \in {"is_active"} |-> TRUE],
      [k \in {"id", "created_at", "name"} |->
          CASE k = "id" -> 9 [] k = "created_at" -> <<9>> [] OTHER -> "n2"],
      [k \in {"phone_number"} |-> PhoneA],
      [k \in {"phone_number", "is_active"} |-> IF k = "is_active" THEN TRUE ELSE PhoneB] }

\* the columns update_tenant pops from the body
FixedColumns == {"id", "phone_number", "created_at"}

\* update(updates) with nothing popped from the body
UpdateAnyColumn(row, updates) ==
    [k \in DOMAIN row |-> IF k \in DOMAIN updates THEN updates[k] ELSE row[k]]

\* updates.pop("id" / "phone_number" / "created_at"), then update(updates)
ApplyUpdates(row, updates) ==
    [k \in DOMAIN row |->
        IF k \in DOMAIN updates \ FixedColumns THEN updates[k] ELSE row[k]]

\* update_tenant: the row is looked up by id; 404 when there is none (lines 236-246)
UpdateTenantCheck(r) ==
    /\ req[r].pc \in {"idle", "done"}
    /\ \E id \in 1..MaxTenants : \E u \in UpdateBodies :
          \/ Refuse(r, "update", 500)
          \/ /\ ~\E t \in tenants : t.id = id
             /\ Refuse(r, "update", 404)
          \/ /\ \E t \in tenants : t.id = id
             /\ req' = [req EXCEPT ![r] = [IdleReq EXCEPT !.op = "update", !.pc = "write",
                                                         !.id = id, !.updates = u]]
    /\ UNCHANGED <<now, configured, active, complaints, proc, room_global, sess, call_logs,
                   pure, tenants,
                   officers, job_assignments, collect_task>>

\* update_tenant: the fixed columns are dropped, the rest is written (lines 248-262)
UpdateTenantWrite(r) ==
    /\ req[r].pc = "write" /\ req[r].op = "update"
    /\ \/ /\ tenants' = {IF t.id = req[r].id THEN ApplyUpdates(t, req[r].updates) ELSE t :
                            t \in tenants}
          /\ Answer(r, 200)
       \/ /\ tenants' = tenants
          /\ Answer(r, 500)
    /\ UNCHANGED <<now, configured, active, complaints, proc, room_global, sess, call_logs,
                   pure,
                   officers, job_assignments, collect_task>>

\* deactivate_tenant: the row is looked up by id (lines 282-292)
DeactivateTenantCheck(r) ==
    /\ req[r].pc \in {"idle", "done"}
    /\ \E id \in 1..MaxTenants :
          \/ /\ ~\E t \in tenants : t.id = id
             /\ Refuse(r, "deactivate", 404)
          \/ /\ \E t \in tenants : t.id = id
             /\ req' = [req EXCEPT ![r] = [IdleReq EXCEPT !.op = "deactivate", !.pc = "write",
                                                         !.id = id]]
    /\ UNCHANGED <<now, configured, active, complaints, proc, room_global, sess, call_logs,
                   pure, tenants,
                   officers, job_assignments, collect_task>>

\* deactivate_tenant: is_active is set to False (lines 294-302)
DeactivateTenantWrite(r) ==
    /\ req[r].pc = "write" /\ req[r].op = "deactivate"
    /\ \/ /\ tenants' = {IF t.id = req[r].id THEN [t EXCEPT !.is_active = FALSE] ELSE t :
                            t \in tenants}
          /\ Answer(r, 200)
       \/ /\ tenants' = tenants
          /\ Answer(r, 500)
    /\ UNCHANGED <<now, configured, active, complaints, proc, room_global, sess, call_logs,
                   pure,
                   officers, job_assignments, collect_task>>

\* ------------------------------------------------------------------ backend: update_complaint_status
\* the values of ComplaintStatus
ComplaintStatuses == {"new", "assigned", "in_progress", "completed", "verified", "closed"}

\* ids a request may name
ComplaintIds == {1, 2}

\* update_complaint_status: the complaint is looked up by id; 404 when there is
\* none (lines 251-261). The status read with it is not used.
UpdateStatusCheck(r) ==
    /\ req[r].pc \in {"idle", "done"}
    /\ \E id \in ComplaintIds : \E st \in ComplaintStatuses :
          \/ /\ ~\E c \in complaints : c.id = id
             /\ Refuse(r, "status", 404)
          \/ /\ \E c \in complaints : c.id = id
             /\ req' = [req EXCEPT ![r] = [IdleReq EXCEPT !.op = "status", !.pc = "write",
                                                         !.id = id, !.status = st]]
    /\ UNCHANGED <<now, configured, active, complaints, proc, room_global, sess, call_logs,
                   pure, tenants,
                   officers, job_assignments, collect_task>>

\* update_complaint_status: the requested status is written (lines 263-271)
UpdateStatusWrite(r) ==
    /\ req[r].pc = "write" /\ req[r].op = "status"
    /\ \/ /\ complaints' = {IF c.id = req[r].id THEN [c EXCEPT !.status = req[r].status]
                               ELSE c : c \in complaints}
          /\ Answer(r, 200)
       \/ /\ complaints' = complaints
          /\ Answer(r, 500)
    /\ UNCHANGED <<now, configured, active, proc, room_global, sess, call_logs, pure,
                   tenants,
                   officers, job_assignments, collect_task>>

\* ------------------------------------------------------------------ backend: officers and jobs
MaxOfficers == 1

MaxJobs == 1

\* values of phone in the bodies of create_officer
OfficerPhones == {PhoneA}

\* updates.pop(column, None) for the protected columns, then update(updates):
\* the columns of the row that the body names and that are not protected
WriteColumns(row, updates, protected) ==
    [k \in DOMAIN row |->
        IF k \in DOMAIN updates \ protected THEN updates[k] ELSE row[k]]

\* the row create_officer inserts (lines 92-100), with the id the store assigns
OfficerRow(tid, phone) ==
    [id |-> Cardinality(officers) + 1, tenant_id |-> tid, phone |-> phone, name |-> "n1",
     is_active |-> TRUE]

\* create_officer: 404 when the tenant is missing, 400 when the tenant has an
\* officer with the phone (lines 69-90)
CreateOfficerCheck(r) ==
    /\ req[r].pc \in {"idle", "done"}
    /\ \E tid \in TenantIds \cup {NoTenant} : \E phone \in OfficerPhones :
          \/ /\ tid \notin TenantIds
             /\ Refuse(r, "create_officer", 404)
          \/ /\ tid \in TenantIds
             /\ \E o \in officers : o.tenant_id = tid /\ o.phone = phone
             /\ Refuse(r, "create_officer", 400)
          \/ /\ tid \in TenantIds
             /\ ~\E o \in officers : o.tenant_id = tid /\ o.phone = phone
             /\ req' = [req EXCEPT ![r] = [IdleReq EXCEPT !.op = "create_officer",
                                                         !.pc = "insert", !.tenant = tid,
                                                         !.phone = phone]]
    /\ UNCHANGED <<now, configured, active, complaints, proc, room_global, sess, call_logs,
                   pure, tenants, officers, job_assignments, collect_task>>

\* create_officer: the insert with is_active True (lines 92-109)
CreateOfficerInsert(r) ==
    /\ req[r].pc = "insert" /\ req[r].op = "create_officer"
    /\ \/ /\ Cardinality(officers) < MaxOfficers
          /\ officers' = officers \cup {OfficerRow(req[r].tenant, req[r].phone)}
          /\ Answer(r, 200)
       \/ /\ officers' = officers
          /\ Answer(r, 500)
    /\ UNCHANGED <<now, configured, active, complaints, proc, room_global, sess, call_logs,
                   pure, tenants, job_assignments, collect_task>>

\* bodies of update_officer
OfficerBodies ==
    { [k \in {"tenant_id"} |-> "t1"],
      [k \in {"tenant_id", "name"} |-> IF k = "tenant_id" THEN "t2" ELSE "n2"] }

\* the columns update_officer pops from the body, tenant_id left in
OfficerProtectedWithoutTenant == {"id", "phone", "created_at"}

\* the columns update_officer pops from the body (lines 198-201)
OfficerProtected == {"id", "tenant_id", "phone", "created_at"}

\* update_officer: the row is looked up by id; 404 when there is none (lines 186-196)
UpdateOfficerCheck(r) ==
    /\ req[r].pc \in {"idle", "done"}
    /\ \E id \in 1..MaxOfficers : \E u \in OfficerBodies :
          \/ /\ ~\E o \in officers : o.id = id
             /\ Refuse(r, "update_officer", 404)
          \/ /\ \E o \in officers : o.id = id
             /\ req' = [req EXCEPT ![r] = [IdleReq EXCEPT !.op = "update_officer",
                                                         !.pc = "write", !.id = id,
                                                         !.updates = u]]
    /\ UNCHANGED <<now, configured, active, complaints, proc, room_global, sess, call_logs,
                   pure, tenants, officers, job_assignments, collect_task>>

\* update_officer: the protected columns are dropped, the rest is written
\* (lines 198-211)
UpdateOfficerWrite(r) ==
    /\ req[r].pc = "write" /\ req[r].op = "update_officer"
    /\ \/ /\ officers' = {IF o.id = req[r].id
                             THEN WriteColumns(o, req[r].updates, OfficerProtected)
                             ELSE o : o \in officers}
          /\ Answer(r, 200)
       \/ /\ officers' = officers
          /\ Answer(r, 500)
    /\ UNCHANGED <<now, configured, active, complaints, proc, room_global, sess, call_logs,
                   pure, tenants, job_assignments, collect_task>>

\* the row create_job inserts (lines 275-283), with the id the store assigns
JobRow(tid, cid, oid) ==
    [id |-> Cardinality(job_assignments) + 1, tenant_id |-> tid, complaint_id |-> cid,
     officer_id |-> oid, status |-> "assigned", photo_urls |-> <<>>, completed_at |-> <<>>]

\* the complaints table after update({"status": status}).eq("id", cid)
WithComplaintStatus(cid, status) ==
    {IF c.id = cid THEN [c EXCEPT !.status = status] ELSE c : c \in complaints}

\* create_job: the complaint and the officer are read; 404 when one is missing,
\* 400 when the officer's tenant is not the complaint's (lines 244-272)
CreateJobCheck(r) ==
    /\ req[r].pc \in {"idle", "done"}
    /\ \E cid \in ComplaintIds : \E oid \in 1..MaxOfficers :
          \/ /\ ~\E c \in complaints : c.id = cid
             /\ Refuse(r, "create_job", 404)
          \/ /\ \E c \in complaints : c.id = cid
             /\ ~\E o \in officers : o.id = oid
             /\ Refuse(r, "create_job", 404)
          \/ \E c \in complaints : \E o \in officers :
                /\ c.id = cid /\ o.id = oid
                /\ IF o.tenant_id # c.tenant_id
                   THEN Refuse(r, "create_job", 400)
                   ELSE req' = [req EXCEPT ![r] = [IdleReq EXCEPT !.op = "create_job",
                                                                 !.pc = "insert",
                                                                 !.tenant = c.tenant_id,
                                                                 !.complaint = cid,
                                                                 !.id = oid]]
    /\ UNCHANGED <<now, configured, active, complaints, proc, room_global, sess, call_logs,
                   pure, tenants, officers, job_assignments, collect_task>>

\* create_job: the job is inserted with status "assigned" and no photo, then the
\* complaint is set to "assigned" (lines 274-300)
CreateJobInsert(r) ==
    /\ req[r].pc = "insert" /\ req[r].op = "create_job"
    /\ LET row == JobRow(req[r].tenant, req[r].complaint, req[r].id)
       IN \/ /\ Cardinality(job_assignments) < MaxJobs
             /\ job_assignments' = job_assignments \cup {row}
             /\ complaints' = WithComplaintStatus(req[r].complaint, "assigned")
             /\ Answer(r, 200)
          \/ \* the job is inserted and the update of the complaint raises
             /\ Cardinality(job_assignments) < MaxJobs
             /\ job_assignments' = job_assignments \cup {row}
             /\ complaints' = complaints
             /\ Answer(r, 500)
          \/ /\ job_assignments' = job_assignments
             /\ complaints' = complaints
             /\ Answer(r, 500)
    /\ UNCHANGED <<now, configured, active, proc, room_global, sess, call_logs,
                   pure, tenants, officers, collect_task>>

\* bodies of update_job
JobBodies ==
    { [k \in {"status", "photo_urls"} |-> IF k = "status" THEN "completed" ELSE <<"u1">>],
      [k \in {"status", "photo_urls"} |-> IF k = "status" THEN "completed" ELSE <<>>],
      [k \in {"status"} |-> "completed"],
      [k \in {"photo_urls"} |-> <<>>],
      [k \in {"status", "tenant_id"} |-> IF k = "status" THEN "in_progress" ELSE "t2"] }

\* updates.get(key, default)
Get(updates, key, default) ==
    IF key \in DOMAIN updates THEN updates[key] ELSE default

\* updates["completed_at"] = datetime.now().isoformat()
WithCompletedAt(updates) ==
    [k \in DOMAIN updates \cup {"completed_at"} |->
        IF k = "completed_at" THEN <<now>> ELSE updates[k]]

\* the columns update_job pops from the body (lines 418-422)
JobProtected == {"id", "tenant_id", "complaint_id", "officer_id", "created_at"}

\* update_job: 404 when the job is missing; a body that sets status "completed"
\* needs a non-empty photo_urls of its own, else 400 (lines 396-415)
UpdateJobCheck(r) ==
    /\ req[r].pc \in {"idle", "done"}
    /\ \E id \in 1..MaxJobs : \E u \in JobBodies :
          \/ /\ ~\E j \in job_assignments : j.id = id
             /\ Refuse(r, "update_job", 404)
          \/ \E j \in job_assignments :
                /\ j.id = id
                /\ IF Get(u, "status", "") = "completed"
                   THEN IF Get(u, "photo_urls", <<>>) = <<>>
                        THEN Refuse(r, "update_job", 400)
                        ELSE req' = [req EXCEPT ![r] = [IdleReq EXCEPT !.op = "update_job",
                                                          !.pc = "write", !.id = id,
                                                          !.complaint = j.complaint_id,
                                                          !.updates = WithCompletedAt(u)]]
                   ELSE req' = [req EXCEPT ![r] = [IdleReq EXCEPT !.op = "update_job",
                                                     !.pc = "write", !.id = id,
                                                     !.complaint = j.complaint_id,
                                                     !.updates = u]]
    /\ UNCHANGED <<now, configured, active, complaints, proc, room_global, sess, call_logs,
                   pure, tenants, officers, job_assignments, collect_task>>

\* update_job: the protected columns are dropped and the rest is written; a body
\* with status "completed" also sets the complaint to "completed" (lines 417-439)
UpdateJobWrite(r) ==
    /\ req[r].pc = "write" /\ req[r].op = "update_job"
    /\ LET written == {IF j.id = req[r].id
                          THEN WriteColumns(j, req[r].updates, JobProtected)
                          ELSE j : j \in job_assignments}
           completed == Get(req[r].updates, "status", "") = "completed"
       IN \/ /\ job_assignments' = written
             /\ complaints' = IF completed
                                 THEN WithComplaintStatus(req[r].complaint, "completed")
                                 ELSE complaints
             /\ Answer(r, 200)
          \/ \* the job is written and the update of the complaint raises
             /\ completed
             /\ job_assignments' = written
             /\ complaints' = complaints
             /\ Answer(r, 500)
          \/ /\ job_assignments' = job_assignments
             /\ complaints' = complaints
             /\ Answer(r, 500)
    /\ UNCHANGED <<now, configured, active, proc, room_global, sess, call_logs,
                   pure, tenants, officers, collect_task>>

\* ------------------------------------------------------------------ agent_v2: CollectComplaintTask
\* ComplaintResult(citizen_name, ..., complaint_number) (lines 159-168)
ComplaintResult(name, number) == [kind |-> "complaint", a |-> name, b |-> number]

\* Assistant.on_enter: result = await CollectComplaintTask(...) (line 239)
AssistantOnEnter ==
    /\ collect_task.state = "new"
    /\ collect_task' = [NewTask EXCEPT !.state = "active"]
    /\ UNCHANGED <<now, configured, active, complaints, proc, room_global, sess, call_logs,
                   pure, tenants, req, officers, job_assignments>>

\* record_complaint is invoked while the task is awaited, or once more after it
\* completed; it builds the transcript and the phone and awaits
\* save_complaint_to_db without looking at the state of the task (lines 125-153)
RecordComplaint(p) ==
    /\ proc[p].pc = "idle"
    /\ \/ collect_task.state = "active"
       \/ collect_task.state = "completed" /\ collect_task.late < MaxLate
    /\ \E a \in CallArgs : CtEnter(p, a, "t1")
    /\ collect_task' =
          [collect_task EXCEPT !.late = IF collect_task.state = "completed" THEN @ + 1 ELSE @]
    /\ UNCHANGED <<now, configured, active, complaints, room_global, sess, call_logs,
                   pure, tenants, req, officers, job_assignments>>

\* record_complaint after the save returned: self.complete(ComplaintResult(...))
\* with the number of the result (lines 155-168)
RecordComplaintComplete(p) ==
    /\ proc[p].pc = "done" /\ proc[p].variant = "ct"
    /\ proc' = [proc EXCEPT ![p].pc = "returned"]
    /\ collect_task' =
          Complete(collect_task,
                   ComplaintResult(proc[p].args.citizen_name, proc[p].result.complaint_number))
    /\ UNCHANGED <<now, configured, active, complaints, room_global, sess, call_logs,
                   pure, tenants, req, officers, job_assignments>>

\* ------------------------------------------------------------------ environment
Tick ==
    /\ now < MaxNow
    /\ now' = now + 1
    /\ UNCHANGED <<configured, active, complaints, proc, room_global, sess, call_logs, pure, tenants, req,
                   officers, job_assignments, collect_task>>

\* the inputs and outputs of the functions applied on their own
\* the save paths that normalize the issue type before the insert
SavePaths == {"ct", "tools", "wdb"}

NoPure ==
    [stage |-> "off", room |-> NoRoom, phone |-> <<>>, again |-> <<>>,
     issue |-> "", canon |-> "", twice |-> "",
     copy |-> "", saved |-> [v \in SavePaths |-> <<"", "">>],
     constituency |-> <<>>, existing |-> 0, args |-> NoArgs, number |-> <<>>,
     data |-> CtComplaintData(NoTenant, NoRef, NoArgs)]

Init ==
    /\ now = 0
    /\ configured \in BOOLEAN
    /\ active \in SUBSET TenantIds
    /\ complaints = {}
    /\ proc = [p \in Procs |-> IdleProc]
    /\ room_global = "none"
    /\ sess = [p \in Procs |-> OffSess]
    /\ call_logs = {}
    /\ pure = NoPure
    /\ tenants = {}
    /\ req = [r \in Reqs |-> IdleReq]
    /\ officers = {}
    /\ job_assignments = {}
    /\ collect_task = NewTask

CtStep(p) == CtCall(p) \/ CtGetTenant(p) \/ CtGetCount(p) \/ CtInsert(p)

ApiStep(p) == ApiCall(p) \/ ApiGetTenant(p) \/ ApiGetCount(p) \/ ApiInsert(p)

ToolsStep(p) ==
    \/ AgentEntrypoint(p) \/ AgentLogCall(p)
    \/ ToolsCall(p) \/ ToolsGetTenant(p) \/ ToolsGetCount(p) \/ ToolsInsert(p)

WdbStep(p) == WdbCall(p) \/ WdbGetTenant(p) \/ WdbGetCount(p) \/ WdbInsert(p)

\* concurrent calls of the two year-counting save paths on one store
Next ==
    \/ \E p \in Procs : CtStep(p) \/ ApiStep(p)
    \/ Tick

Spec == Init /\ [][Next]_vars

\* the single-prompt agents' save tools on the same store
NextTools ==
    \/ \E p \in Procs : ToolsStep(p) \/ WdbStep(p)
    \/ Tick

SpecTools == Init /\ [][NextTools]_vars

\* one call handled by the step-by-step orchestrator; the clock stands at the
\* start of the call
Dialogue(s) ==
    \/ GotName(s) \/ GotIssue(s) \/ ClarifyIssue(s) \/ GotLocation(s)

Orchestrator(s) ==
    \/ Greet(s) \/ EnterName(s) \/ AfterName(s) \/ AfterIssue(s) \/ Finalize(s) \/ Confirm(s)

SaveSteps(s) == CtGetTenant(s) \/ CtGetCount(s) \/ CtInsert(s)

NextAgent ==
    \E s \in Sessions :
        \/ Entrypoint(s) \/ Dialogue(s) \/ Orchestrator(s) \/ SaveSteps(s)
        \/ CallEnds(s) \/ TaskCloses(s)

\* the store the call finds: configured or not, with tenant t1 active or none
InitAgent == Init /\ active \subseteq {"t1"}

SpecAgent == InitAgent /\ [][NextAgent]_vars

\* the event loop runs every coroutine that can run, every request ends (each has
\* a timeout), and the call ends
FairAgent ==
    \A s \in Sessions :
        /\ WF_vars(Orchestrator(s))
        /\ WF_vars(SaveSteps(s))
        /\ WF_vars(TaskCloses(s))
        /\ WF_vars(CallEnds(s))

FairSpecAgent == InitAgent /\ [][NextAgent]_vars /\ FairAgent

\* the answer callbacks called with arguments the dialogue left empty: the
\* parameters are plain strings, and the ward has the default ""
GotNameOrEmpty(s) == GotNameFrom(s, Names \cup {""})

GotIssueOrEmpty(s) ==
    GotIssueFrom(s, IssueAnswers \cup {<<"", "">>, <<"water", "">>, <<"", "no water">>})

GotLocationOrEmpty(s) == GotLocationFrom(s, LocationAnswers \cup {<<"", "">>, <<"", "5">>})

\* the three slot tasks of one call, up to the answer of the location task
NextAnswers ==
    \E s \in Sessions :
        \/ Entrypoint(s) \/ Greet(s) \/ EnterName(s) \/ GotNameOrEmpty(s) \/ AfterName(s)
        \/ GotIssueOrEmpty(s) \/ ClarifyIssue(s) \/ AfterIssue(s) \/ GotLocationOrEmpty(s)

SpecAnswers == InitAgent /\ [][NextAnswers]_vars

\* two calls in one worker whose callers give no answer: the sessions share the
\* globals ROOM and ROOM_NAME
NextTwoCalls ==
    \E s \in Procs :
        \/ Entrypoint(s) \/ Greet(s) \/ EnterName(s) \/ CallEnds(s) \/ TaskCloses(s)
        \/ AfterName(s) \/ AfterIssue(s) \/ Finalize(s)

SpecTwoCalls == Init /\ [][NextTwoCalls]_vars

\* requests to the tenants api, served side by side
TenantStep(r) ==
    \/ CreateTenantCheck(r) \/ CreateTenantInsert(r)
    \/ UpdateTenantCheck(r) \/ UpdateTenantWrite(r)
    \/ DeactivateTenantCheck(r) \/ DeactivateTenantWrite(r)

NextTenants == \E r \in Reqs : TenantStep(r)

\* the tenants table starts empty, the store configured
InitBackend == Init /\ configured /\ active = TenantIds

SpecTenants == InitBackend /\ [][NextTenants]_vars

\* one CollectComplaintTask and the invocations of its record_complaint
CollectStep(p) ==
    \/ RecordComplaint(p)
    \/ CtGetTenant(p) \/ CtGetCount(p) \/ CtInsert(p)
    \/ RecordComplaintComplete(p)

NextCollect ==
    \/ AssistantOnEnter
    \/ \E p \in Procs : CollectStep(p)

SpecCollect == Init /\ [][NextCollect]_vars

\* one client creates a complaint; another creates officers and creates, updates
\* and deactivates tenants
NextFrame ==
    \/ ApiStep("p1")
    \/ TenantStep("r1")
    \/ CreateOfficerCheck("r1") \/ CreateOfficerInsert("r1")

SpecFrame == InitBackend /\ [][NextFrame]_vars

\* one client creates complaints, one changes their status
NextStatus ==
    \/ ApiStep("p1")
    \/ UpdateStatusCheck("r1") \/ UpdateStatusWrite("r1")

SpecStatus == InitBackend /\ [][NextStatus]_vars

OfficerStep(r) ==
    \/ CreateOfficerCheck(r) \/ CreateOfficerInsert(r)
    \/ UpdateOfficerCheck(r) \/ UpdateOfficerWrite(r)

JobStep(r) ==
    \/ CreateJobCheck(r) \/ CreateJobInsert(r)
    \/ UpdateJobCheck(r) \/ UpdateJobWrite(r)

\* one client creates a complaint, another sends the requests on officers and jobs
NextJobs ==
    \/ ApiStep("p1")
    \/ OfficerStep("r1")
    \/ JobStep("r1")

SpecJobs == InitBackend /\ [][NextJobs]_vars

\* ------------------------------------------------------------------ the functions on their own
\* a room name that embeds a number of another country: "c_+14155550123_x"
RoomNameUS ==
    <<"c", "_", "+", "1", "4", "1", "5", "5", "5", "5", "0", "1", "2", "3", "_", "x">>

\* a room name that embeds "+91" and twelve digits
RoomNameLong == <<"c", "_">> \o PhoneA \o <<"7", "7", "_", "x">>

\* a room name that embeds two numbers
RoomNameTwo == <<"c", "_">> \o PhoneB \o <<"_">> \o PhoneA

ResolverRooms ==
    { [name |-> RoomNameA, identities |-> <<SipPrefix \o PhoneB>>],
      [name |-> RoomNameA, identities |-> <<>>],
      [name |-> RoomNamePlain, identities |-> <<WebIdentity, SipPrefix \o PhoneB>>],
      [name |-> RoomNamePlain, identities |-> <<WebIdentity>>],
      [name |-> RoomNameUS, identities |-> <<>>],
      [name |-> RoomNameLong, identities |-> <<>>],
      [name |-> RoomNameTwo, identities |-> <<WebIdentity>>],
      [name |-> <<>>, identities |-> <<SipPrefix>>] }

\* the seven values of the issue_type column
CanonicalCategories ==
    {"water", "road", "electricity", "drainage", "garbage", "streetlight", "other"}

\* phrases handed to normalize_issue_type ("ta_road" stands for the Tamil word)
IssuePhrases ==
    CanonicalCategories \cup
        {"pothole", "ta_road", "Pothole", " Pothole ", "power", "noise complaint", ""}

\* copies of a phrase in another letter case, or padded with blanks
RecasedOrPadded(x) ==
    CASE x = "water" -> {"Water", " Water ", " water "}
      [] x = "pothole" -> {"Pothole", " Pothole ", " pothole "}
      [] OTHER -> {}

\* the issue_type column of the record a save path posts for the phrase x
PersistedIssue(v, x) ==
    LET a == [NoArgs EXCEPT !.issue_type = x]
    IN  CASE v = "ct" -> CtComplaintData("t1", NoRef, a).issue_type
          [] v = "tools" -> ToolsComplaintData("t1", NoRef, a).issue_type
          [] OTHER -> WdbComplaintData("t1", NoRef, a).issue_type

InitPure ==
    /\ now = 0
    /\ configured = FALSE
    /\ active = {}
    /\ complaints = {}
    /\ proc = [p \in Procs |-> IdleProc]
    /\ room_global = "none"
    /\ sess = [p \in Procs |-> OffSess]
    /\ call_logs = {}
    /\ tenants = {}
    /\ req = [r \in Reqs |-> IdleReq]
    /\ officers = {}
    /\ job_assignments = {}
    /\ collect_task = NewTask
    /\ \E r \in ResolverRooms : \E x \in IssuePhrases :
       \E y \in RecasedOrPadded(x) \cup {x} :
          pure = [NoPure EXCEPT !.stage = "in", !.room = r, !.issue = x, !.copy = y]

\* step 5 of on_enter on the room
ApplyResolve ==
    /\ pure.stage = "in"
    /\ pure' = [pure EXCEPT !.stage = "resolved", !.phone = ResolvePhone(pure.room)]
    /\ UNCHANGED <<now, configured, active, complaints, proc, room_global, sess, call_logs, tenants, req,
                   officers, job_assignments, collect_task>>

\* step 5 once more on the same room
ApplyResolveAgain ==
    /\ pure.stage = "resolved"
    /\ pure' = [pure EXCEPT !.stage = "resolved2", !.again = ResolvePhone(pure.room)]
    /\ UNCHANGED <<now, configured, active, complaints, proc, room_global, sess, call_logs, tenants, req,
                   officers, job_assignments, collect_task>>

\* normalize_issue_type on the phrase
ApplyNormalize ==
    /\ pure.stage = "resolved2"
    /\ pure' = [pure EXCEPT !.stage = "normalized", !.canon = NormalizeIssueType(pure.issue)]
    /\ UNCHANGED <<now, configured, active, complaints, proc, room_global, sess, call_logs, tenants, req,
                   officers, job_assignments, collect_task>>

\* normalize_issue_type on its own result
ApplyNormalizeAgain ==
    /\ pure.stage = "normalized"
    /\ pure' = [pure EXCEPT !.stage = "done", !.twice = NormalizeIssueType(pure.canon)]
    /\ UNCHANGED <<now, configured, active, complaints, proc, room_global, sess, call_logs, tenants, req,
                   officers, job_assignments, collect_task>>

\* the phrase and its copy through the record builders of the three save paths
ApplySavePaths ==
    /\ pure.stage = "done"
    /\ pure' = [pure EXCEPT !.stage = "persisted",
                   !.saved = [v \in SavePaths |->
                                <<PersistedIssue(v, pure.issue), PersistedIssue(v, pure.copy)>>]]
    /\ UNCHANGED <<now, configured, active, complaints, proc, room_global, sess, call_logs, tenants, req,
                   officers, job_assignments, collect_task>>

NextPure ==
    \/ ApplyResolve \/ ApplyResolveAgain \/ ApplyNormalize \/ ApplyNormalizeAgain
    \/ ApplySavePaths

SpecPure == InitPure /\ [][NextPure]_vars

\* ------------------------------------------------------------------ the record on its own
\* values of the constituency column: those of the two tenants, a name of two
\* letters and a name with punctuation ("T. Nagar")
ConstituencyValues ==
    {Constituency(t) : t \in TenantIds} \cup
        {<<"r", "k">>, <<"T", ".", " ", "N", "a", "g", "a", "r">>}

\* numbers of complaints the count request may find
ExistingCounts == {0, 41, 9998, 9999}

\* the optional arguments of save_complaint_to_db, each collected or not
RecordArgs ==
    { [NoArgs EXCEPT !.citizen_name = "Kumar", !.issue_type = "water",
                     !.description = "no water", !.location = "Main Road",
                     !.ward = w, !.landmark = l, !.transcript = tr,
                     !.duration = d, !.audio_url = u] :
        w \in {"", "5"}, l \in {"", "temple"}, tr \in {"", "t"},
        d \in {0, 1}, u \in {"", "url"} }

InitRecord ==
    /\ now = 0
    /\ configured = TRUE
    /\ active = {}
    /\ complaints = {}
    /\ proc = [p \in Procs |-> IdleProc]
    /\ room_global = "none"
    /\ sess = [p \in Procs |-> OffSess]
    /\ call_logs = {}
    /\ tenants = {}
    /\ req = [r \in Reqs |-> IdleReq]
    /\ officers = {}
    /\ job_assignments = {}
    /\ collect_task = NewTask
    /\ \E c \in ConstituencyValues : \E n \in ExistingCounts : \E a \in RecordArgs :
          pure = [NoPure EXCEPT !.stage = "counted", !.constituency = c,
                                !.existing = n, !.args = a]

\* step 2 of save_complaint_to_db on the tenant row and the count (lines 151-161)
BuildNumber ==
    /\ pure.stage = "counted"
    /\ pure' = [pure EXCEPT !.stage = "numbered",
                   !.number = RenderNumber(FormatNumber(Prefix3(pure.constituency),
                                                        YearOf(now), pure.existing + 1))]
    /\ UNCHANGED <<now, configured, active, complaints, proc, room_global, sess, call_logs, tenants, req,
                   officers, job_assignments, collect_task>>

\* steps 3 to 5: the record that is posted (lines 163-185)
BuildRecord ==
    /\ pure.stage = "numbered"
    /\ pure' = [pure EXCEPT !.stage = "built",
                   !.data = CtComplaintData("t1",
                               FormatNumber(Prefix3(pure.constituency), YearOf(now),
                                            pure.existing + 1),
                               pure.args)]
    /\ UNCHANGED <<now, configured, active, complaints, proc, room_global, sess, call_logs, tenants, req,
                   officers, job_assignments, collect_task>>

NextRecord == BuildNumber \/ BuildRecord

SpecRecord == InitRecord /\ [][NextRecord]_vars

\* ================================================================== claims

\* C1: two calls of save_complaint_to_db / create_complaint that are in flight
\* together for the same tenant and year, both past their count read and
\* before their insert, hold different allocated complaint numbers.
C1_ConcurrentNumbersDistinct ==
    \A p, q \in Procs :
        ( /\ p # q
          /\ proc[p].pc = "insert" /\ proc[q].pc = "insert"
          /\ proc[p].tenant_id = proc[q].tenant_id
          /\ proc[p].year = proc[q].year )
        => proc[p].number # proc[q].number

\* C2: no two stored complaints of the same tenant created in the same year
\* carry the same reference number.
C2_StoredNumbersUnique ==
    \A c, d \in complaints :
        ( /\ c.id # d.id
          /\ c.tenant_id = d.tenant_id
          /\ c.created_year = d.created_year )
        => c.complaint_number # d.complaint_number

\* C4: every call of complaint_tools.save_complaint_to_db that has ended has
\* returned a result (no exception left the function) whose complaint_number
\* is not empty, whatever the store answered to its requests.
C4_SaveAlwaysReturnsNumber ==
    \A p \in Procs :
        (proc[p].variant = "ct" /\ proc[p].pc = "done")
        => (proc[p].result.returned /\ proc[p].result.complaint_number # NoRef)

\* a configured call whose first request raised: nothing was read from the store
C4_Witness ==
    \E p \in Procs :
        /\ proc[p].variant = "ct" /\ proc[p].pc = "done"
        /\ configured
        /\ proc[p].tenant_id = NoTenant
        /\ proc[p].result.error
        /\ proc[p].result.complaint_number.fmt = "RC_HMS"

\* C5: the string a single-prompt agent's save tool hands back to the
\* dialogue carries a reference number after every save attempt.
C5_ReplyCarriesReference ==
    \A p \in Procs :
        (proc[p].variant \in {"tools", "wdb"} /\ proc[p].pc = "done")
        => proc[p].reply.ref # NoRef

\* ------------------------------------------------------------------ the step-by-step orchestrator
TaskKinds == {"name", "issue", "location"}

\* C3: in ComplaintAgent.on_enter, once the three collection tasks have ended, a
\* confirmation reply that carries a reference number is always emitted, whatever
\* fails in phone resolution, transcript building, tenant lookup, number
\* allocation or the insert
C3_ConfirmationAlwaysEmitted ==
    \A s \in Sessions :
        (sess[s].pc = "await_location" /\ Ended(sess[s].tasks.location))
            ~> (/\ sess[s].pc = "confirmed"
                /\ "confirmation" \in sess[s].said
                /\ sess[s].ref # NoRef)

\* a call confirmed with a fallback number after the phone resolution and the
\* transcript raised and the store rejected the insert
C3_Witness ==
    \E s \in Sessions :
        /\ sess[s].pc = "confirmed"
        /\ sess[s].caller_phone = Unknown
        /\ sess[s].transcript = "summary+summary"
        /\ proc[s].number # NoRef
        /\ proc[s].result.error
        /\ sess[s].ref = LocalRefHMS(now)

\* C6: the three tasks run in the order Name, Issue, Location: a task is entered
\* only after the previous one has completed or closed without a result, at most
\* one task is active at any moment, and the Issue task is constructed with the
\* name the Name task yielded (or its default)
C6_TasksSequential ==
    \A s \in Sessions :
        LET t == sess[s].tasks
        IN /\ Cardinality({k \in TaskKinds : t[k].state = "active"}) <= 1
           /\ t.issue.state # "new" => Ended(t.name)
           /\ t.location.state # "new" => Ended(t.issue)
           /\ t.issue.state # "new" =>
                 /\ t.name.result.kind = "name" => t.issue.carried[1] = t.name.result.a
                 /\ t.name.result.kind = "None" => t.issue.carried[1] = DefaultName

\* the Issue task is active, constructed with the name Kumar the Name task yielded
C6_Witness ==
    \E s \in Sessions :
        /\ sess[s].tasks.name.state = "completed"
        /\ sess[s].tasks.name.result.a = "Kumar"
        /\ sess[s].tasks.issue.state = "active"
        /\ sess[s].tasks.issue.carried = <<"Kumar", "sir_ta">>
        /\ sess[s].tasks.location.state = "new"

\* C7: whatever answers are delivered to one task, complete() takes effect at most
\* once: the task holds exactly one result when completed, and every further
\* callback on the completed task fails with the invalid-state error and yields no
\* second result
C7_CompleteAtMostOnce ==
    \A s \in Sessions : \A k \in TaskKinds :
        LET t == sess[s].tasks[k]
        IN /\ t.results <= 1
           /\ t.results = 1 <=> t.state = "completed"
           /\ t.invalid = t.late

\* a task that completed once and then rejected a further callback
C7_Witness ==
    \E s \in Sessions : \E k \in TaskKinds :
        /\ sess[s].tasks[k].state = "completed"
        /\ sess[s].tasks[k].results = 1
        /\ sess[s].tasks[k].late = 1
        /\ sess[s].tasks[k].invalid = 1

\* C8: an out-of-domain answer given while the issue is collected leaves the
\* issue task active: the task never completes on an issue outside the domain
C8_OutOfDomainKeepsTaskActive ==
    \A s \in Sessions :
        sess[s].tasks.issue.state = "completed"
            => sess[s].tasks.issue.result.a \in InDomainIssues

\* the call dropped after the Name task completed and before the Issue task did
C9_Case(s) ==
    /\ sess[s].tasks.name.state = "completed"
    /\ sess[s].tasks.issue.state = "closed"

DroppedMidTask(s) ==
    \E k \in TaskKinds : sess[s].tasks[k].state = "closed"

\* C11: when a call drops in the middle of a collection task, log_call has been
\* invoked for the session by the time on_enter has finished
C11_DisconnectStillLogged ==
    \A s \in Sessions :
        (DroppedMidTask(s) /\ sess[s].pc = "confirmed")
            => \E l \in call_logs : l.room = s

\* a reference number generated locally by save_complaint_to_db
IsFallback(ref) == ref.fmt \in {"RC_YmdHMS", "RC_HMS"}

\* C12: any two fallback reference numbers that save_complaint_to_db has handed
\* out are different, also when both calls fell back at the same time
C12_FallbackNumbersDistinct ==
    \A p, q \in Procs :
        ( /\ p # q
          /\ proc[p].variant = "ct" /\ proc[p].pc = "done"
          /\ proc[q].variant = "ct" /\ proc[q].pc = "done"
          /\ IsFallback(proc[p].result.complaint_number)
          /\ IsFallback(proc[q].result.complaint_number) )
        => proc[p].result.complaint_number # proc[q].result.complaint_number

\* C13: every result of save_complaint_to_db with a fallback reference number has
\* success = true and the local marker, and a result of the successful path has
\* no marker
C13_FallbackCarriesMarker ==
    \A p \in Procs :
        (proc[p].variant = "ct" /\ proc[p].pc = "done")
        => LET r == proc[p].result
           IN /\ IsFallback(r.complaint_number) => (r.success /\ r.local)
              /\ ~IsFallback(r.complaint_number) => ~r.local

\* C14 (as claimed): the result of save_complaint_to_db carries a complaint id if
\* and only if the call inserted the complaint into the store
C14_IdIffInserted ==
    \A p \in Procs :
        (proc[p].variant = "ct" /\ proc[p].pc = "done")
        => (proc[p].result.complaint_id # 0 <=> proc[p].stored # 0)

\* C14 (amended): a result of save_complaint_to_db that carries a complaint id
\* comes from a call that inserted the complaint, and the id and the number of the
\* result are those of the stored row
C14_IdOnlyIfInserted ==
    \A p \in Procs :
        (proc[p].variant = "ct" /\ proc[p].pc = "done" /\ proc[p].result.complaint_id # 0)
        => /\ proc[p].stored = proc[p].result.complaint_id
           /\ \E c \in complaints :
                 /\ c.id = proc[p].result.complaint_id
                 /\ c.complaint_number = proc[p].result.complaint_number

\* a call that inserted its complaint and returned the id of the stored row
C14_Witness ==
    \E p \in Procs :
        /\ proc[p].variant = "ct" /\ proc[p].pc = "done"
        /\ proc[p].result.complaint_id # 0
        /\ proc[p].stored = proc[p].result.complaint_id

\* C15: when the called number maps to no known tenant, the save still ends with
\* success and a fallback reference number, which the caller is told
C15_UnknownTenantStillFallsBack ==
    \A p \in Procs :
        (proc[p].variant = "tools" /\ proc[p].pc = "done" /\ proc[p].called = NoTenant)
        => /\ proc[p].result.success
           /\ proc[p].result.complaint_number # NoRef
           /\ proc[p].reply.ref = proc[p].result.complaint_number

\* C16: with two or more active tenants, the complaint of a call placed to tenant
\* T's number is stored with tenant_id = T and a number of T's sequence
C16_SavedUnderCalledTenant ==
    \A p \in Procs : \A c \in complaints :
        ( /\ proc[p].variant = "ct" /\ proc[p].called \in TenantIds
          /\ Cardinality(active) >= 2
          /\ c.id = proc[p].stored )
        => /\ c.tenant_id = proc[p].called
           /\ c.complaint_number.prefix = Prefix3(Constituency(proc[p].called))

\* ------------------------------------------------------------------ caller phone
\* C17: with two sessions in one worker, the caller phone a session resolves at
\* finalization comes from that session's own room name and participants (or is
\* "unknown" after an error), whatever other session started in between
C17_PhoneFromOwnRoom ==
    \A s \in Procs :
        sess[s].pc = "saving"
            => sess[s].caller_phone \in {ResolvePhone(sess[s].room), Unknown}

\* the room of the inputs has been resolved
Resolved == pure.stage \notin {"off", "in"}

NameMatches(name) == \E i \in 1..Len(name) : MatchAt(name, i)

\* C18 (as claimed): when the room name and a SIP participant give different
\* numbers, the caller phone is the SIP identity without its prefix
C18_SipIdentityFirst ==
    ( /\ Resolved
      /\ FirstSip(pure.room.identities) # Unknown
      /\ NameMatches(pure.room.name)
      /\ FirstSip(pure.room.identities) # SearchPhone(pure.room.name) )
    => pure.phone = FirstSip(pure.room.identities)

\* C18 (amended): the caller phone is the number the pattern finds in the room
\* name whenever it finds one, also when a SIP participant gives another number;
\* the SIP identity without its prefix is used only when the name has no match
C18_RoomNameFirst ==
    Resolved =>
        /\ NameMatches(pure.room.name) =>
              \E i \in 1..Len(pure.room.name) :
                  /\ MatchAt(pure.room.name, i)
                  /\ pure.phone = SubSeq(pure.room.name, i, i + 2 + NationalDigits)
        /\ ~NameMatches(pure.room.name) => pure.phone = FirstSip(pure.room.identities)

\* both sources give a number, the numbers differ, the one of the room name is taken
C18_Witness ==
    /\ Resolved
    /\ pure.room.name = RoomNameA
    /\ FirstSip(pure.room.identities) = PhoneB
    /\ pure.phone = PhoneA

\* the number of digits that follow position i of the name
C19_DigitRun(name, i) ==
    Cardinality({n \in 1..(Len(name) - i) : \A k \in 1..n : name[i + k] \in Digits})

\* the first "+" of the name followed by 10 to 15 digits, with those digits
C19_EmbeddedPhone(name) ==
    LET at == {i \in 1..Len(name) : name[i] = "+" /\ C19_DigitRun(name, i) \in 10..15}
    IN  IF at = {} THEN <<>>
        ELSE LET i == CHOOSE x \in at : \A y \in at : x <= y
             IN  SubSeq(name, i, i + C19_DigitRun(name, i))

\* C19 (as claimed): without a SIP participant, a room name that embeds a phone
\* number (a country code and a national number, 10 to 15 digits) resolves to that
\* number, and a name that embeds none resolves to "unknown"
C19_EmbeddedNumberResolved ==
    (Resolved /\ FirstSip(pure.room.identities) = Unknown)
    => IF C19_EmbeddedPhone(pure.room.name) # <<>>
       THEN pure.phone = C19_EmbeddedPhone(pure.room.name)
       ELSE pure.phone = Unknown

\* C19 (amended): without a SIP participant, a room name that embeds "+91" and
\* ten digits resolves to "+91" and the ten digits of the leftmost such place
\* ("+919876543210" to itself), and every other name resolves to "unknown"
C19_IndianNumberResolved ==
    (Resolved /\ FirstSip(pure.room.identities) = Unknown)
    => LET name == pure.room.name
       IN /\ NameMatches(name) =>
                \E i \in 1..Len(name) :
                    /\ MatchAt(name, i)
                    /\ \A j \in 1..(i - 1) : ~MatchAt(name, j)
                    /\ pure.phone = SubSeq(name, i, i + 2 + NationalDigits)
          /\ ~NameMatches(name) => pure.phone = Unknown
          /\ name = RoomNameA => pure.phone = PhoneA

\* the scenario of the claim: the name embeds +919876543210, no SIP participant
C19_Witness ==
    /\ Resolved
    /\ pure.room = [name |-> RoomNameA, identities |-> <<>>]
    /\ pure.phone = PhoneA

\* C20: normalize_issue_type maps every phrase to one of the seven canonical
\* categories, a canonical category to itself, "pothole" and the Tamil word for
\* road to road, an unrecognized phrase to other, and its own result to itself
C20_NormalizeTotalIdempotent ==
    /\ pure.stage \in {"normalized", "done"} =>
          /\ pure.canon \in CanonicalCategories
          /\ pure.issue \in CanonicalCategories => pure.canon = pure.issue
          /\ pure.issue \in {"pothole", "ta_road"} => pure.canon = "road"
          /\ pure.issue = "noise complaint" => pure.canon = "other"
    /\ pure.stage = "done" => pure.twice = pure.canon

\* an unrecognized phrase normalized to other, and other to itself
C20_Witness ==
    /\ pure.stage = "done"
    /\ pure.issue = "noise complaint"
    /\ pure.canon = "other"
    /\ pure.twice = "other"

\* C21: in every save path, a phrase and a copy of it in another letter case or
\* padded with blanks are persisted under the same category
C21_CaseAndBlanksIgnored ==
    pure.stage = "persisted" =>
        \A v \in SavePaths : pure.saved[v][1] = pure.saved[v][2]

\* C22: when a save path allocates a number, its sequence is the number of
\* complaints of that tenant created in the current year plus one, and its prefix
\* is the first three characters of the tenant's constituency in upper case
C22_SequenceIsYearCountPlusOne ==
    [][\A p \in Procs :
          (proc[p].pc = "count" /\ proc'[p].pc = "insert") =>
              LET t == proc[p].tenant_id
                  y == proc[p].year
              IN  /\ proc'[p].number.seq =
                        Cardinality({c \in complaints :
                                        c.tenant_id = t /\ c.created_year = y}) + 1
                  /\ proc'[p].number.year = y
                  /\ proc'[p].number.prefix = Prefix3(Constituency(t))]_vars

UpperLetters ==
    {"A", "B", "C", "D", "E", "F", "G", "H", "I", "J", "K", "L", "M",
     "N", "O", "P", "Q", "R", "S", "T", "U", "V", "W", "X", "Y", "Z"}

\* three upper-case letters, "-", four digits, "-", four digits
C23_HasShape(number) ==
    /\ Len(number) = 13
    /\ \A i \in 1..3 : number[i] \in UpperLetters
    /\ number[4] = "-"
    /\ \A i \in 5..8 : number[i] \in Digits
    /\ number[9] = "-"
    /\ \A i \in 10..13 : number[i] \in Digits

\* C23: every reference number built for a complaint has the shape
\* PREFIX-YEAR-SEQ with exactly three upper-case letters, a year of four digits
\* and a sequence of exactly four digits, whatever the constituency and the count
C23_NumberHasShape ==
    pure.stage \in {"numbered", "built"} => C23_HasShape(pure.number)

\* C24: the location of the record is "Ward {ward}, {location}" when the ward is
\* not empty, and the collected location with no ward prefix when it is empty
C24_WardMergedIntoLocation ==
    pure.stage = "built" =>
        IF pure.args.ward # ""
        THEN pure.data.location = <<"Ward ", pure.args.ward, ", ", pure.args.location>>
        ELSE pure.data.location = <<pure.args.location>>

\* a record built for ward 5
C24_Witness ==
    /\ pure.stage = "built"
    /\ pure.args.ward = "5"
    /\ pure.data.location = <<"Ward ", "5", ", ", "Main Road">>

\* C25: in the record save_complaint_to_db posts, an optional field that was not
\* collected (landmark, transcript, audio reference, call duration) is null, never
\* an empty string or zero, and a collected one is posted as collected
C25_UncollectedFieldsAreNull ==
    pure.stage = "built" =>
        /\ \A f \in {"landmark", "transcript", "audio_url"} :
              /\ pure.args[f] = "" => pure.data[f] = NULL
              /\ pure.args[f] # "" => pure.data[f] = pure.args[f]
              /\ pure.data[f] # ""
        /\ pure.args.duration = 0 => pure.data.duration = <<>>
        /\ pure.args.duration > 0 => pure.data.duration = <<pure.args.duration>>
        /\ pure.data.duration # <<0>>

\* a record built when none of the four optional fields was collected
C25_Witness ==
    /\ pure.stage = "built"
    /\ pure.args.landmark = "" /\ pure.args.transcript = ""
    /\ pure.args.audio_url = "" /\ pure.args.duration = 0
    /\ pure.data.landmark = NULL /\ pure.data.transcript = NULL
    /\ pure.data.audio_url = NULL /\ pure.data.duration = <<>>

\* C26: a structured answer whose required field is empty (the name, the issue
\* type or the description, the location) does not complete its slot task: a
\* completed task holds no empty required field
C26_EmptyAnswerKeepsTaskActive ==
    \A s \in Sessions :
        /\ sess[s].tasks.name.state = "completed" => sess[s].tasks.name.result.a # ""
        /\ sess[s].tasks.issue.state = "completed" =>
              sess[s].tasks.issue.result.a # "" /\ sess[s].tasks.issue.result.b # ""
        /\ sess[s].tasks.location.state = "completed" =>
              sess[s].tasks.location.result.a # ""

\* C27: the confirmation reply is emitted only after the save of the call has
\* returned, and the reference number it speaks is the complaint_number that save
\* returned
C27_ConfirmationSpeaksSavedNumber ==
    \A s \in Sessions :
        "confirmation" \in sess[s].said =>
            /\ proc[s].variant = "ct" /\ proc[s].pc = "done"
            /\ proc[s].result.returned
            /\ sess[s].ref = proc[s].result.complaint_number

\* a call confirmed with the number of the row its save stored
C27_Witness ==
    \E s \in Sessions :
        /\ sess[s].pc = "confirmed"
        /\ proc[s].stored # 0
        /\ proc[s].result.complaint_number.fmt = "db"
        /\ sess[s].ref = proc[s].result.complaint_number

\* C28: a step of the save path leaves every stored complaint as it is and adds
\* at most one record, whose status is "new"
C28_SaveOnlyAddsNewRecord ==
    [][/\ complaints \subseteq complaints'
       /\ Cardinality(complaints' \ complaints) <= 1
       /\ \A c \in complaints' \ complaints : c.status = "new"]_vars

\* save_complaint_to_db has added its record to a store that held one already
C28_Witness ==
    \E p \in Procs :
        /\ proc[p].variant = "ct" /\ proc[p].stored > 1
        /\ \E c \in complaints : c.id = proc[p].stored /\ c.status = "new"
        /\ \E c \in complaints : c.id < proc[p].stored

\* C29: whatever the interleaving of create_tenant, update_tenant and
\* deactivate_tenant requests, no two active tenants have the same phone number
C29_ActivePhonesUnique ==
    \A t, u \in tenants :
        (t.is_active /\ u.is_active /\ t.phone_number = u.phone_number) => t = u

\* the documented chain of the status, one step at a time
C30_Chain ==
    {<<"new", "assigned">>, <<"assigned", "in_progress">>, <<"in_progress", "completed">>,
     <<"completed", "verified">>, <<"verified", "closed">>}

\* C30: update_complaint_status moves a complaint one step along the chain new,
\* assigned, in_progress, completed, verified, closed, or leaves its status as it is
C30_StatusFollowsChain ==
    [][\A c \in complaints : \A d \in complaints' :
          c.id = d.id => (d.status = c.status \/ <<c.status, d.status>> \in C30_Chain)]_vars

\* C34: when a save_complaint_to_db call has left a record in the store, the
\* reference number it returned is the complaint_number of that record
C34_ReturnedNumberIsStoredNumber ==
    \A p \in Procs :
        (proc[p].variant = "ct" /\ proc[p].pc = "done" /\ proc[p].stored # 0) =>
            \E c \in complaints :
                /\ c.id = proc[p].stored
                /\ proc[p].result.complaint_number = c.complaint_number

\* C36: the issue_type each of the three save variants writes, for every phrase
\* of the dialogue and its re-cased or padded copy, is one of the seven categories
C36_StoredIssueTypeCanonical ==
    pure.stage = "persisted" =>
        \A v \in SavePaths :
            /\ pure.saved[v][1] \in CanonicalCategories
            /\ pure.saved[v][2] \in CanonicalCategories

\* a phrase that is no category, and a category in another letter case, through
\* the three save variants
C36_Witness ==
    /\ pure.stage = "persisted"
    /\ pure.issue \notin CanonicalCategories
    /\ pure.copy \notin CanonicalCategories
    /\ \A v \in SavePaths : pure.saved[v][1] = "other"

\* C37: the caller phone resolved from the room name and the participant
\* identities is never the empty string
C37_PhoneNeverEmpty ==
    Resolved => pure.phone # <<>>

\* the rows of tenant t created in year y or later
C38_OwnRows(t, y) ==
    {c \in complaints : c.tenant_id = t /\ c.created_year >= y}

\* C38: the sequence allocated for a tenant is one more than the number of that
\* tenant's own rows of the year (or 1 when the count is refused), whatever the
\* other tenants have stored
C38_SequenceFromOwnRowsOnly ==
    [][\A p \in Procs :
          (proc[p].pc = "count" /\ proc'[p].pc = "insert") =>
              proc'[p].number.seq \in
                  {1, Cardinality(C38_OwnRows(proc[p].tenant_id, proc[p].year)) + 1}]_vars

\* a number allocated for one tenant after another tenant's complaint was stored
C38_Witness ==
    \E p \in Procs :
        /\ proc[p].pc = "insert" /\ proc[p].variant = "api"
        /\ proc[p].number.seq = 1
        /\ \E c \in complaints :
              c.tenant_id # proc[p].tenant_id /\ c.created_year >= proc[p].year

\* C31: a job assignment whose status is completed has at least one photo URL
C31_CompletedJobHasPhoto ==
    \A j \in job_assignments : j.status = "completed" => j.photo_urls # <<>>

\* C32: every job assignment names a stored complaint and a stored officer that
\* both belong to the tenant whose id the job carries
C32_JobLinksOneTenant ==
    \A j \in job_assignments :
        \E c \in complaints : \E o \in officers :
            /\ c.id = j.complaint_id /\ o.id = j.officer_id
            /\ c.tenant_id = j.tenant_id
            /\ o.tenant_id = j.tenant_id

\* a job of tenant t1 after an update_job and an update_officer whose bodies
\* both named tenant t2
C32_Witness ==
    \E j \in job_assignments : \E o \in officers :
        /\ j.officer_id = o.id
        /\ j.tenant_id = "t1" /\ j.status = "in_progress"
        /\ o.tenant_id = "t1" /\ o.name = "n2"

\* the tenants table after the step holds, for every row before it, a row that
\* agrees with it on the columns cols, and no row more or less
C33_Keeps(cols) ==
    /\ Cardinality(tenants') = Cardinality(tenants)
    /\ \A t \in tenants : \E u \in tenants' : \A k \in cols : u[k] = t[k]

\* C33: the write of update_tenant leaves id, phone_number and created_at of every
\* tenant as they were; the write of deactivate_tenant leaves every column but
\* is_active as it was, and removes no tenant, complaint or officer
C33_TenantFrame ==
    [][\A r \in Reqs :
          (req[r].pc = "write" /\ req'[r].pc = "done") =>
              /\ req[r].op = "update" =>
                    C33_Keeps({"id", "phone_number", "created_at"})
              /\ req[r].op = "deactivate" =>
                    /\ C33_Keeps({"id", "phone_number", "created_at", "name"})
                    /\ complaints' = complaints
                    /\ officers' = officers]_vars

\* a tenant that was updated with a body naming id and created_at and then
\* deactivated, in a store that holds a complaint and an officer
C33_Witness ==
    /\ \E t \in tenants : t.name = "n2" /\ ~t.is_active /\ t.created_at = <<0>>
    /\ complaints # {}
    /\ officers # {}

\* C35: once a record_complaint callback has arrived on a completed
\* CollectComplaintTask, the store holds at most the one complaint of that task
C35_LateCallbackWritesNothing ==
    collect_task.late > 0 => Cardinality(complaints) <= 1

====
